---------------------------- MODULE Spec2Model ----------------------------
(***************************************************************************)
(* FocusClass: a model of the teacher's session registry                   *)
(* (src/src/teacher/teacher_app.py, advanced_teacher_app.py), of the       *)
(* hook-based focus engine (src/src/common/focus_manager.py) and of the    *)
(* student's violation path (src/src/student/student_app.py).              *)
(*                                                                         *)
(* TeacherMainWindow defines several methods twice in its class body; the  *)
(* later definition is the one Python binds, and it is the one modelled.   *)
(* The network and database managers are not part of the sources; what the *)
(* model needs of them is written from the design document and marked so.  *)
(*                                                                         *)
(* Specifications:                                                         *)
(*   Spec          session lifecycle and admission                         *)
(*   SpecConfig    focus-mode and monitoring toggles against admission     *)
(*   SpecRegistry  telemetry handlers against the registry                 *)
(*   SpecFocus     the student's focus engine, end to end to the registry  *)
(*   SpecKeys      the keyboard hook of an enabled engine, all chord keys  *)
(*   SpecAllow     the allow-rules of the hook-based and lightweight engine *)
(*   SpecRemoval   removal of students against loss of their connection    *)
(*   SpecCapture   the screen capture manager and the pulls of its track   *)
(*   SpecStudent   the student application's handlers up to disconnection  *)
(*   SpecAdaptive  the adaptive quality controller over its intervals      *)
(*   SpecConfigured  the controller, direct settings and a running track   *)
(*   SpecSharing   the teacher's screen sharing and the student's display  *)
(*   SpecTelemetry the reports of one student next to a second client      *)
(*   SpecStopSharing  the teacher's screen sharing across a session stop   *)
(*   SpecShare     the student's answers to the teacher's share requests   *)
(***************************************************************************)
EXTENDS Integers, Sequences, FiniteSets, TLC

\* ------------------------------------------------------------------ bounds
Clients == {"c1", "c2"}
Codes == {"ABCD1234", "WXYZ9876"}
Passwords == {"p@ss", "guess"}
\* create_session is called at most this many times
MaxSessions == 2
\* a client's registry-side violation count is followed up to this value
MaxViolations == 2
\* entries kept per client in malicious_activities
MaxMalicious == 1

\* enable_focus_mode is called at most this many times
MaxEnables == 2
\* ticks of the clock in one second
SecondTicks == 2
\* the clock is followed up to this tick
MaxTime == 4
\* ScreenCaptureTrack objects are constructed at most this many times
MaxTracks == 2
\* a track is pulled at most this many times
MaxFrames == 3
\* the clock of the adaptive controller is followed over this many adjustment
\* intervals
MaxIntervals == 3

\* ------------------------------------------------------ program constants
\* self.battery_threshold
battery_threshold == 20
\* handle_keystroke_data: "if keystroke_count > 1000"
KeystrokeAlert == 1000
\* handle_system_info: "if cpu_usage > 80"
CpuAlert == 80

\* ScreenCapture.__init__: "self.fps = 15", "self.scale_factor = 1.0"
DefaultFps == 15
FullScale == 100
\* set_custom_settings: fps is kept within 1..60, scale_factor within 0.1..2.0
MinFps == 1
MaxFps == 60
MinScale == 10
MaxScale == 200
\* AdaptiveQuality.__init__: "self.adjustment_interval = 10", in seconds
adjustment_interval == 10
\* update_network_metrics: the limits of latency and of packet loss (in
\* thousandths) of a good and of a fair network
GoodLatency == 50
GoodLoss == 10
FairLatency == 150
FairLoss == 50

\* the monitors _detect_monitors finds on the machine of the model
MonitorCount == 2

\* the values telemetry messages carry in the model
KeystrokeCounts == {12, 1001}
BatteryLevels == {100, 10}
CpuUsages == {90}

VARIABLES
    \* TeacherMainWindow
    session_id,                 \* 0 is None
    session_active,
    teacher_focus_mode_active,  \* TeacherMainWindow.focus_mode_active
    keystroke_monitoring,
    charging_monitoring,
    connected_students,         \* client id -> student record
    malicious_activities,       \* client id -> number of entries
    \* the coroutines of TeacherMainWindow, each with the await it is parked at
    start_task,                 \* _start_session_async
    stop_pc,                    \* _stop_session_async
    toggle_task,                \* _toggle_focus_mode_async
    auth_task,                  \* handle_student_authentication, per client
    \* the collaborators
    db_sessions,                \* sessions created in the database so far
    server,                     \* NetworkManager's listening side
    sent,                       \* per client, the last message handed to the network manager for it
    \* removal of a student, per client
    remove_pc,                  \* _remove_student_async
    loss_pc,                    \* the connection-loss call of handle_student_disconnection
    db_removes,                 \* calls of db_manager.remove_student
    key_error,                  \* "del self.connected_students[client_id]" raised KeyError
    \* FocusManager of the student behind client "c1"
    focus_mode_active,
    allowed_windows,
    pressed_keys,
    keyboard_hook,              \* 0 is None
    window_hook,                \* 0 is None
    monitoring_thread,          \* 0 is None
    stop_monitoring,            \* threading.Event
    violation_count,
    last_violation_time,
    \* the student's process around it
    main_pc,                    \* where the event-loop thread is
    enable_calls,               \* enable_focus_mode calls so far
    os_keyboard_hooks,          \* keyboard hooks the system holds installed
    os_window_hooks,            \* window-event hooks the system holds installed
    threads,                    \* thread id -> the monitoring thread's position
    callback_tasks,             \* violation_callback tasks created, not yet run
    violation_frames,           \* violation messages on their way to the teacher
    hook_return,                \* what keyboard_hook_proc returned last
    now,                        \* time.time(), in ticks
    \* LightweightFocusManager, the engine of a student without privileges
    lw_focus_mode_active,
    lw_allowed_windows,
    lw_tasks,                   \* _monitor_windows tasks alive on the loop
    foreground,                 \* title of the foreground window
    \* ScreenCapture
    webrtc_available,           \* WEBRTC_AVAILABLE, fixed when the module is imported
    is_capturing,
    capture_track,
    current_monitor,
    fps,
    scale_factor,               \* in hundredths
    quality,
    tracks_created,             \* ScreenCaptureTrack objects constructed so far
    returned,                   \* what start_capture returned last
    capture_call,               \* the method of ScreenCapture called last, with its monitor
    \* the ScreenCaptureTrack held in capture_track
    track_fps,
    frame_count,
    last_frame_time,
    frame_pts,                  \* pts of the frame recv returned last, -1 before any
    recv_pc,                    \* where the pull in progress is
    recv_current_time,
    recv_wake,                  \* when the pull's sleep ends
    track_scale_factor,
    frame_returned_at,          \* when recv returned its last frame
    \* StudentMainWindow and its StudentScreenShare
    connected,
    student_focus_mode_active,  \* StudentMainWindow.focus_mode_active
    restrictions_active,
    secure_mode_active,         \* AdvancedStudentApp.secure_mode_active
    heartbeat_timer,            \* the QTimer is running
    is_sharing,
    share_track,
    share_pc,                   \* where _start_sharing is
    \* the student's VideoDisplayWidget
    video_connected,
    current_frame,              \* a frame of the teacher's screen is held
    \* AdaptiveQuality
    network_quality,
    frame_loss_rate,            \* in thousandths
    latency,
    current_level_index,
    last_adjustment,
    \* the teacher's screen sharing
    screen_sharing_active,
    basic_sharing_timer,        \* the QTimer is running
    sharing_pc,                 \* where the screen sharing call in progress is
    sharing_toast,              \* what the last screen sharing call told the teacher
    \* StudentScreenShare: the approval of share requests
    auto_approve,
    require_confirmation,
    approval_callback,          \* an approval callback was given to __init__
    share_asked,                \* the last request called the approval callback
    share_approved,             \* what the approval callback returned for it
    share_reply                 \* the message of the last request's response

lifecycleVars == <<session_id, session_active, start_task, stop_pc, db_sessions, server>>

configVars == <<teacher_focus_mode_active, keystroke_monitoring, charging_monitoring,
                toggle_task>>

registryVars == <<connected_students, malicious_activities, auth_task>>

removalVars == <<remove_pc, loss_pc, db_removes, key_error>>

teacherVars == <<lifecycleVars, configVars, registryVars, sent, removalVars>>

engineVars == <<focus_mode_active, allowed_windows, pressed_keys, keyboard_hook,
                window_hook, monitoring_thread, stop_monitoring, violation_count,
                last_violation_time>>

processVars == <<main_pc, enable_calls, os_keyboard_hooks, os_window_hooks, threads,
                 callback_tasks, violation_frames, hook_return, now>>

processVarsButPc == <<enable_calls, os_keyboard_hooks, os_window_hooks, threads,
                      callback_tasks, violation_frames, now>>

lightweightVars == <<lw_focus_mode_active, lw_allowed_windows, lw_tasks, foreground>>

captureVars == <<webrtc_available, is_capturing, capture_track, current_monitor, fps,
                 scale_factor, quality, tracks_created, returned, capture_call>>

trackVars == <<track_fps, frame_count, last_frame_time, frame_pts, recv_pc,
               recv_current_time, recv_wake, track_scale_factor, frame_returned_at>>

appVars == <<connected, student_focus_mode_active, restrictions_active, secure_mode_active,
             heartbeat_timer, is_sharing, share_track, share_pc>>

videoVars == <<video_connected, current_frame>>

adaptiveVars == <<network_quality, frame_loss_rate, latency, current_level_index,
                  last_adjustment>>

sharingVars == <<screen_sharing_active, basic_sharing_timer, sharing_pc, sharing_toast>>

approvalVars == <<auto_approve, require_confirmation, approval_callback, share_asked,
                  share_approved, share_reply>>

otherVars == <<videoVars, adaptiveVars, sharingVars, approvalVars>>

restVars == <<lightweightVars, captureVars, trackVars, appVars, otherVars>>

studentVars == <<engineVars, processVars, restVars>>

vars == <<teacherVars, studentVars>>

\* ------------------------------------------------------------- messages
NoMessage == [type |-> "none", focus_mode |-> FALSE, keystroke_monitoring |-> FALSE,
              battery_monitoring |-> FALSE, enabled |-> FALSE, action |-> ""]

FocusModeMessage(enabled) == [NoMessage EXCEPT !.type = "focus_mode", !.enabled = enabled]

MonitoringChangeMessage(enabled) ==
    [NoMessage EXCEPT !.type = "monitoring_change", !.enabled = enabled]

DisconnectNotice == [NoMessage EXCEPT !.type = "disconnect"]

ForceDisconnect == [NoMessage EXCEPT !.type = "force_disconnect"]

\* the screen_sharing message of _start_screen_sharing_async and
\* _stop_screen_sharing_async: it has an action, "start" or "stop"
ScreenSharingAction(action) ==
    [NoMessage EXCEPT !.type = "screen_sharing", !.action = action]

\* the screen_sharing message of start_screen_sharing and stop_screen_sharing:
\* it has enabled and no action
ScreenSharingEnabled(enabled) ==
    [NoMessage EXCEPT !.type = "screen_sharing", !.enabled = enabled]

\* the screen_frame message of capture_and_send_frame
ScreenFrame == [NoMessage EXCEPT !.type = "screen_frame"]

\* a reply that carries the configuration the teacher starts with, whatever
\* it is now
AuthSuccessDefaults ==
    [NoMessage EXCEPT !.type = "auth_success", !.keystroke_monitoring = TRUE,
                      !.battery_monitoring = TRUE]

\* the auth_success payload built in handle_student_authentication
AuthSuccessPayload ==
    [NoMessage EXCEPT !.type = "auth_success",
                      !.focus_mode = teacher_focus_mode_active,
                      !.keystroke_monitoring = keystroke_monitoring,
                      !.battery_monitoring = charging_monitoring]

\* NetworkManager.broadcast_message: every client of the running server gets it
Broadcast(msg) == IF server.running THEN [c \in Clients |-> msg] ELSE sent

\* self.network_manager._send_message(client_id, ...) is called with msg
SendTo(c, msg) == [sent EXCEPT ![c] = msg]

\* ------------------------------------------------------------- registry
NoStudents == [c \in {} |-> 0]

\* the record handle_student_authentication stores
NewStudent == [violations |-> 0, keystroke_count |-> 0, battery_level |-> 100,
               is_charging |-> TRUE, focus_active |-> FALSE, cpu_usage |-> 0]

Register(c, rec) ==
    [x \in DOMAIN connected_students \cup {c} |->
        IF x = c THEN rec ELSE connected_students[x]]

IdleStart == [pc |-> "idle", session_code |-> "", password |-> ""]
IdleToggle == [pc |-> "idle", enabled |-> FALSE]
IdleAuth == [pc |-> "idle", session_code |-> "", password |-> ""]
NoServer == [running |-> FALSE, session_code |-> "", password |-> ""]

\* the value of capture_track and of start_capture: None, the flag of the
\* basic mode, or the n-th ScreenCaptureTrack constructed
None == <<>>
BasicCapture == <<"basic_capture">>
Track(n) == <<"ScreenCaptureTrack", n>>

\* a call of a method of ScreenCapture
Call(op, monitor) == [op |-> op, monitor |-> monitor]
NoCall == Call("none", 0)

\* ScreenCaptureTrack.__init__: frame timing and performance tracking
InitTrack(track_fps0) ==
    /\ track_fps = track_fps0
    /\ track_scale_factor = FullScale
    /\ frame_returned_at = 0
    /\ frame_count = 0
    /\ last_frame_time = 0
    /\ frame_pts = -1
    /\ recv_pc = "idle"
    /\ recv_current_time = 0
    /\ recv_wake = 0

\* ScreenCapture.__init__, in a build with or without aiortc
InitCapture(webrtc) ==
    /\ webrtc_available = webrtc
    /\ is_capturing = FALSE
    /\ capture_track = None
    /\ current_monitor = 0
    /\ fps = DefaultFps
    /\ scale_factor = FullScale
    /\ quality = "medium"
    /\ tracks_created = 0
    /\ returned = None
    /\ capture_call = NoCall
    /\ InitTrack(DefaultFps)

\* StudentMainWindow.__init__ and StudentScreenShare.__init__
InitApp ==
    /\ connected = FALSE
    /\ student_focus_mode_active = FALSE
    /\ restrictions_active = FALSE
    /\ secure_mode_active = FALSE
    /\ heartbeat_timer = FALSE
    /\ is_sharing = FALSE
    /\ share_track = None
    /\ share_pc = "idle"

\* VideoDisplayWidget.__init__, AdaptiveQuality.__init__ and the screen
\* sharing fields of TeacherMainWindow.__init__
InitOther ==
    /\ video_connected = FALSE
    /\ current_frame = FALSE
    /\ network_quality = "good"
    /\ frame_loss_rate = 0
    /\ latency = 0
    /\ current_level_index = 1
    /\ last_adjustment = 0
    /\ screen_sharing_active = FALSE
    /\ basic_sharing_timer = FALSE
    /\ sharing_pc = "idle"
    /\ sharing_toast = "none"

\* StudentScreenShare.__init__, with or without an approval callback
InitScreenShare(callback) ==
    /\ auto_approve = FALSE
    /\ require_confirmation = TRUE
    /\ approval_callback = callback
    /\ share_asked = FALSE
    /\ share_approved = FALSE
    /\ share_reply = "none"

\* nobody is being removed
InitRemoval ==
    /\ remove_pc = [c \in Clients |-> "idle"]
    /\ loss_pc = [c \in Clients |-> "idle"]
    /\ db_removes = [c \in Clients |-> 0]
    /\ key_error = [c \in Clients |-> FALSE]

\* FocusManager.__init__, in a student process whose loop is running, with
\* the clock at the given time
InitStudentAt(time) ==
    /\ focus_mode_active = FALSE
    /\ allowed_windows = {}
    /\ pressed_keys = {}
    /\ keyboard_hook = 0
    /\ window_hook = 0
    /\ monitoring_thread = 0
    /\ stop_monitoring = FALSE
    /\ violation_count = 0
    /\ last_violation_time = 0
    /\ main_pc = "loop"
    /\ enable_calls = 0
    /\ os_keyboard_hooks = {}
    /\ os_window_hooks = {}
    /\ threads = [t \in 1..MaxEnables |-> [pc |-> "unborn", current_time |-> 0]]
    /\ callback_tasks = 0
    /\ violation_frames = 0
    /\ hook_return = "none"
    /\ now = time
    /\ lw_focus_mode_active = FALSE
    /\ lw_allowed_windows = {}
    /\ lw_tasks = 0
    /\ foreground = <<>>

\* the clock is read for the first time more than a second after its zero
InitStudent == InitStudentAt(SecondTicks)

\* TeacherMainWindow.__init__
Init ==
    /\ InitStudent
    /\ InitCapture(TRUE)
    /\ InitApp
    /\ InitOther
    /\ InitScreenShare(TRUE)
    /\ InitRemoval
    /\ session_id = 0
    /\ session_active = FALSE
    /\ teacher_focus_mode_active = FALSE
    /\ keystroke_monitoring = TRUE
    /\ charging_monitoring = TRUE
    /\ connected_students = NoStudents
    /\ malicious_activities = [c \in Clients |-> 0]
    /\ start_task = IdleStart
    /\ stop_pc = "idle"
    /\ toggle_task = IdleToggle
    /\ auth_task = [c \in Clients |-> IdleAuth]
    /\ db_sessions = 0
    /\ server = NoServer
    /\ sent = [c \in Clients |-> NoMessage]

\* ------------------------------------------------- _start_session_async
\* start_session: schedules the coroutine, which generates the credentials and
\* parks at initialize_database
StartSession ==
    /\ start_task.pc = "idle"
    /\ db_sessions < MaxSessions
    /\ \E code \in Codes, pw \in Passwords :
         start_task' = [pc |-> "initialize_database", session_code |-> code,
                        password |-> pw]
    /\ UNCHANGED <<session_id, session_active, stop_pc, db_sessions, server>>
    /\ UNCHANGED <<configVars, registryVars, sent, removalVars, studentVars>>

\* quick_start_session: start_session only when no session is active
QuickStartSession ==
    /\ ~session_active
    /\ StartSession

\* resumes from initialize_database, calls create_session
StartCreateSession ==
    /\ start_task.pc = "initialize_database"
    /\ start_task' = [start_task EXCEPT !.pc = "create_session"]
    /\ db_sessions' = db_sessions + 1
    /\ UNCHANGED <<session_id, session_active, stop_pc, server>>
    /\ UNCHANGED <<configVars, registryVars, sent, removalVars, studentVars>>

\* NetworkManager.start_teacher_server(session_code, password)
StartTeacherServer(code, pw) == [running |-> TRUE, session_code |-> code, password |-> pw]

\* resumes from create_session: session_id is assigned, start_teacher_server called
StartServer ==
    /\ start_task.pc = "create_session"
    /\ session_id' = db_sessions
    /\ server' = StartTeacherServer(start_task.session_code, start_task.password)
    /\ start_task' = [start_task EXCEPT !.pc = "start_teacher_server"]
    /\ UNCHANGED <<session_active, stop_pc, db_sessions>>
    /\ UNCHANGED <<configVars, registryVars, sent, removalVars, studentVars>>

\* resumes from start_teacher_server: the session is marked active
StartFinish ==
    /\ start_task.pc = "start_teacher_server"
    /\ session_active' = TRUE
    /\ start_task' = IdleStart
    /\ UNCHANGED <<session_id, stop_pc, db_sessions, server>>
    /\ UNCHANGED <<configVars, registryVars, sent, removalVars, studentVars>>

\* -------------------------------------------------- _stop_session_async
\* NetworkManager.stop_server: the clients are told and the listening side closes
StopServer == [server EXCEPT !.running = FALSE]

StopServerNotice == Broadcast(DisconnectNotice)

\* stop_session / emergency stop / closeEvent schedule the coroutine; with a
\* session id it parks at end_session, otherwise it goes on to stop_server
StopSession ==
    /\ stop_pc = "idle"
    /\ IF session_id # 0
         THEN /\ stop_pc' = "end_session"
              /\ UNCHANGED <<server, sent>>
         ELSE /\ stop_pc' = "stop_server"
              /\ sent' = StopServerNotice
              /\ server' = StopServer
    /\ UNCHANGED <<session_id, session_active, start_task, db_sessions>>
    /\ UNCHANGED <<configVars, registryVars, removalVars, studentVars>>

\* resumes from end_session, calls stop_server
StopEndSession ==
    /\ stop_pc = "end_session"
    /\ stop_pc' = "stop_server"
    /\ sent' = StopServerNotice
    /\ server' = StopServer
    /\ UNCHANGED <<session_id, session_active, start_task, db_sessions>>
    /\ UNCHANGED <<configVars, registryVars, removalVars, studentVars>>

\* a registry left as it is
KeepStudents == connected_students

\* self.connected_students.clear()
ClearStudents == NoStudents

\* ---------------------------------------------- _toggle_focus_mode_async
\* toggle_focus_mode(enabled): with a session id the coroutine parks at
\* update_focus_mode, otherwise it goes on to broadcast_message
ToggleFocusMode(enabled) ==
    /\ toggle_task.pc = "idle"
    /\ IF session_id # 0
         THEN /\ toggle_task' = [pc |-> "update_focus_mode", enabled |-> enabled]
              /\ UNCHANGED sent
         ELSE /\ toggle_task' = [pc |-> "broadcast_message", enabled |-> enabled]
              /\ sent' = Broadcast(FocusModeMessage(enabled))
    /\ UNCHANGED <<teacher_focus_mode_active, keystroke_monitoring, charging_monitoring>>
    /\ UNCHANGED <<lifecycleVars, registryVars, removalVars, studentVars>>

\* resumes from update_focus_mode, calls broadcast_message
ToggleBroadcast ==
    /\ toggle_task.pc = "update_focus_mode"
    /\ toggle_task' = [toggle_task EXCEPT !.pc = "broadcast_message"]
    /\ sent' = Broadcast(FocusModeMessage(toggle_task.enabled))
    /\ UNCHANGED <<teacher_focus_mode_active, keystroke_monitoring, charging_monitoring>>
    /\ UNCHANGED <<lifecycleVars, registryVars, removalVars, studentVars>>

\* what the coroutine does to the registry after the broadcast: nothing, it
\* goes straight on to self.focus_mode_active = enabled
StudentsAfterToggle(enabled) == connected_students

\* resumes from broadcast_message
ToggleFinish ==
    /\ toggle_task.pc = "broadcast_message"
    /\ connected_students' = StudentsAfterToggle(toggle_task.enabled)
    /\ teacher_focus_mode_active' = toggle_task.enabled
    /\ toggle_task' = IdleToggle
    /\ UNCHANGED <<keystroke_monitoring, charging_monitoring>>
    /\ UNCHANGED <<lifecycleVars, malicious_activities, auth_task, sent, removalVars, studentVars>>

\* ------------------------------------- AdvancedTeacherApp monitoring menu
ToggleKeystrokeMonitoring(enabled) ==
    /\ keystroke_monitoring' = enabled
    /\ sent' = Broadcast(MonitoringChangeMessage(enabled))
    /\ UNCHANGED <<teacher_focus_mode_active, charging_monitoring, toggle_task>>
    /\ UNCHANGED <<lifecycleVars, registryVars, removalVars, studentVars>>

ToggleBatteryMonitoring(enabled) ==
    /\ charging_monitoring' = enabled
    /\ sent' = Broadcast(MonitoringChangeMessage(enabled))
    /\ UNCHANGED <<teacher_focus_mode_active, keystroke_monitoring, toggle_task>>
    /\ UNCHANGED <<lifecycleVars, registryVars, removalVars, studentVars>>

\* ------------------------------------------ handle_student_authentication
\* whether the handler admits the supplied pair: it reads both fields and
\* compares neither ("For now, accept all connections")
Admits(code, pw) == TRUE

\* an authenticate frame of client c is dispatched: the handler reads the
\* fields and parks at add_student
Authenticate(c, code, pw) ==
    /\ server.running
    /\ auth_task[c].pc = "idle"
    /\ Admits(code, pw)
    /\ auth_task' = [auth_task EXCEPT ![c] =
                        [pc |-> "add_student", session_code |-> code, password |-> pw]]
    /\ UNCHANGED <<connected_students, malicious_activities>>
    /\ UNCHANGED <<lifecycleVars, configVars, sent, removalVars, studentVars>>

\* resumes from add_student: the record is stored and auth_success is sent
AuthenticateFinish(c) ==
    /\ auth_task[c].pc = "add_student"
    /\ connected_students' = Register(c, NewStudent)
    /\ sent' = SendTo(c, AuthSuccessPayload)
    /\ auth_task' = [auth_task EXCEPT ![c] = IdleAuth]
    /\ UNCHANGED malicious_activities
    /\ UNCHANGED <<lifecycleVars, configVars, removalVars, studentVars>>

\* ------------------------------------------------------ telemetry handlers
Registered(c) == c \in DOMAIN connected_students

\* a handler's writes to the record of a client go to that client's record
\* only
EveryEntry(c, student) == [x \in DOMAIN connected_students |-> student]

\* student = self.connected_students[client_id], and the handler's writes to
\* student: the record is the registry's own object for that client
StudentEntry(c, student) == [connected_students EXCEPT ![c] = student]

\* student["violations"] += 1
CountViolation(student) == [student EXCEPT !.violations = @ + 1]

\* handle_violation: a violation frame of client c is dispatched
HandleViolation(c) ==
    /\ server.running
    /\ IF Registered(c)
         THEN /\ connected_students[c].violations < MaxViolations
              /\ connected_students' =
                    StudentEntry(c, CountViolation(connected_students[c]))
         ELSE UNCHANGED connected_students
    /\ UNCHANGED <<malicious_activities, auth_task>>
    /\ UNCHANGED <<lifecycleVars, configVars, sent, removalVars>>

\* log_malicious_activity: one more entry for a registered client
LogMaliciousActivity(c) ==
    IF Registered(c)
      THEN [malicious_activities EXCEPT ![c] = @ + 1]
      ELSE malicious_activities

\* the handlers that log an entry under a condition wait for room in the list
MaliciousRoom(c) == malicious_activities[c] < MaxMalicious

\* handle_keystroke_data
HandleKeystrokeData(c, count) ==
    /\ server.running
    /\ IF Registered(c)
         THEN /\ connected_students' =
                    StudentEntry(c, [connected_students[c] EXCEPT
                                        !.keystroke_count = count])
              /\ IF count > KeystrokeAlert
                   THEN /\ MaliciousRoom(c)
                        /\ malicious_activities' = LogMaliciousActivity(c)
                   ELSE UNCHANGED malicious_activities
         ELSE UNCHANGED <<connected_students, malicious_activities>>
    /\ UNCHANGED auth_task
    /\ UNCHANGED <<lifecycleVars, configVars, sent, removalVars>>

\* handle_battery_status
HandleBatteryStatus(c, level, charging) ==
    /\ server.running
    /\ IF Registered(c)
         THEN /\ connected_students' =
                    StudentEntry(c, [connected_students[c] EXCEPT
                                        !.battery_level = level,
                                        !.is_charging = charging])
              /\ IF level < battery_threshold /\ ~charging
                   THEN /\ MaliciousRoom(c)
                        /\ malicious_activities' = LogMaliciousActivity(c)
                   ELSE UNCHANGED malicious_activities
         ELSE UNCHANGED <<connected_students, malicious_activities>>
    /\ UNCHANGED auth_task
    /\ UNCHANGED <<lifecycleVars, configVars, sent, removalVars>>

\* handle_system_info
HandleSystemInfo(c, cpu) ==
    /\ server.running
    /\ IF Registered(c)
         THEN /\ connected_students' =
                    StudentEntry(c, [connected_students[c] EXCEPT !.cpu_usage = cpu])
              /\ IF cpu > CpuAlert
                   THEN /\ MaliciousRoom(c)
                        /\ malicious_activities' = LogMaliciousActivity(c)
                   ELSE UNCHANGED malicious_activities
         ELSE UNCHANGED <<connected_students, malicious_activities>>
    /\ UNCHANGED auth_task
    /\ UNCHANGED <<lifecycleVars, configVars, sent, removalVars>>

\* handle_malicious_activity
HandleMaliciousActivity(c) ==
    /\ server.running
    /\ MaliciousRoom(c)
    /\ malicious_activities' = LogMaliciousActivity(c)
    /\ UNCHANGED <<connected_students, auth_task>>
    /\ UNCHANGED <<lifecycleVars, configVars, sent, removalVars>>

\* the system_stats a heartbeat may carry: none, the student application's
\* battery reading, or a key of the record itself
SystemStats == {[k \in {} |-> 0], [k \in {"battery_level"} |-> 10],
                [k \in {"violations"} |-> 0]}

\* student.update(system_stats)
DictUpdate(student, stats) ==
    [k \in DOMAIN student |-> IF k \in DOMAIN stats THEN stats[k] ELSE student[k]]

\* handle_heartbeat
HandleHeartbeat(c, focus_active, stats) ==
    /\ server.running
    /\ IF Registered(c)
         THEN connected_students' =
                 StudentEntry(c, DictUpdate([connected_students[c] EXCEPT
                                                !.focus_active = focus_active], stats))
         ELSE UNCHANGED connected_students
    /\ UNCHANGED <<malicious_activities, auth_task>>
    /\ UNCHANGED <<lifecycleVars, configVars, sent, removalVars>>

\* ------------------------------------------------ removal of a student
\* "del self.connected_students[client_id]"
DelStudent(c) == [x \in DOMAIN connected_students \ {c} |-> connected_students[x]]

\* remove_student / _remove_student_async: force_disconnect is sent to the
\* student and the coroutine parks at _send_message
RemoveStudent(c) ==
    /\ server.running
    /\ Registered(c)
    /\ remove_pc[c] = "idle"
    /\ remove_pc' = [remove_pc EXCEPT ![c] = "send_message"]
    /\ sent' = SendTo(c, ForceDisconnect)
    /\ UNCHANGED <<loss_pc, db_removes, key_error>>
    /\ UNCHANGED <<lifecycleVars, configVars, registryVars, studentVars>>

\* handle_student_disconnection up to its await: a registered client's
\* database row is removed and the coroutine parks at remove_student
DisconnectionEnter(c, pc) ==
    IF Registered(c)
      THEN /\ pc' = [pc EXCEPT ![c] = "remove_student"]
           /\ db_removes' = [db_removes EXCEPT ![c] = @ + 1]
      ELSE /\ pc' = [pc EXCEPT ![c] = "done"]
           /\ UNCHANGED db_removes

\* handle_student_disconnection after its await: the entry is deleted, and
\* the del raises KeyError when the entry is no longer there
DisconnectionFinish(c, pc) ==
    /\ pc[c] = "remove_student"
    /\ pc' = [pc EXCEPT ![c] = "done"]
    /\ connected_students' = DelStudent(c)
    /\ key_error' = [key_error EXCEPT ![c] = @ \/ ~Registered(c)]

\* _remove_student_async resumes from _send_message and calls
\* handle_student_disconnection
RemoveStudentDisconnect(c) ==
    /\ remove_pc[c] = "send_message"
    /\ DisconnectionEnter(c, remove_pc)
    /\ UNCHANGED <<loss_pc, key_error>>
    /\ UNCHANGED <<lifecycleVars, configVars, registryVars, sent, studentVars>>

\* ... and resumes from remove_student
RemoveStudentFinish(c) ==
    /\ DisconnectionFinish(c, remove_pc)
    /\ UNCHANGED <<loss_pc, db_removes>>
    /\ UNCHANGED <<malicious_activities, auth_task>>
    /\ UNCHANGED <<lifecycleVars, configVars, sent, studentVars>>

\* the network manager reports the loss of the client's connection, once:
\* handle_student_disconnection is called as the "disconnection" handler
ConnectionLost(c) ==
    /\ loss_pc[c] = "idle"
    /\ DisconnectionEnter(c, loss_pc)
    /\ UNCHANGED <<remove_pc, key_error>>
    /\ UNCHANGED <<lifecycleVars, configVars, registryVars, sent, studentVars>>

ConnectionLostFinish(c) ==
    /\ DisconnectionFinish(c, loss_pc)
    /\ UNCHANGED <<remove_pc, db_removes>>
    /\ UNCHANGED <<malicious_activities, auth_task>>
    /\ UNCHANGED <<lifecycleVars, configVars, sent, studentVars>>

\* ------------------------------------------------------------ FocusManager
\* a string is the sequence of its characters
UpperCase == <<"A", "B", "C", "D", "E", "F", "G", "H", "I", "J", "K", "L", "M", "N", "O", "P", "Q", "R", "S", "T", "U", "V", "W", "X", "Y", "Z">>
LowerCase == <<"a", "b", "c", "d", "e", "f", "g", "h", "i", "j", "k", "l", "m", "n", "o", "p", "q", "r", "s", "t", "u", "v", "w", "x", "y", "z">>

\* str.lower()
Lower(str) ==
    [i \in 1..Len(str) |->
        IF \E j \in 1..Len(UpperCase) : UpperCase[j] = str[i]
          THEN LowerCase[CHOOSE j \in 1..Len(UpperCase) : UpperCase[j] = str[i]]
          ELSE str[i]]

\* "a in b" on strings
Contains(b, a) ==
    \E i \in 0..(Len(b) - Len(a)) : SubSeq(b, i + 1, i + Len(a)) = a

\* enable_focus_mode's default for allowed_window_titles
FocusClassStudent == <<"F", "o", "c", "u", "s", "C", "l", "a", "s", "s", " ", "S", "t", "u", "d", "e", "n", "t">>

\* _is_window_allowed: system_windows
system_windows == {<<"P", "r", "o", "g", "r", "a", "m", " ", "M", "a", "n", "a", "g", "e", "r">>,
                   <<"D", "e", "s", "k", "t", "o", "p", " ", "W", "i", "n", "d", "o", "w", " ", "M", "a", "n", "a", "g", "e", "r">>,
                   <<"W", "i", "n", "d", "o", "w", "s", " ", "S", "e", "c", "u", "r", "i", "t", "y">>,
                   <<"T", "a", "s", "k", " ", "M", "a", "n", "a", "g", "e", "r">>}

\* self.restricted_keys
restricted_keys ==
    [alt_tab |-> {"VK_MENU", "VK_TAB"},
     win_key |-> {"VK_LWIN", "VK_RWIN"},
     ctrl_esc |-> {"VK_CONTROL", "VK_ESCAPE"},
     ctrl_shift_esc |-> {"VK_CONTROL", "VK_SHIFT", "VK_ESCAPE"},
     alt_f4 |-> {"VK_MENU", "VK_F4"},
     ctrl_alt_del |-> {"VK_CONTROL", "VK_MENU", "VK_DELETE"}]

\* the keys the keyboard produces in the model
Keys == {"VK_MENU", "VK_TAB"}

\* the titles of the windows that come to the foreground in the model
WindowTitles == {<<>>,
                 <<"f", "o", "c", "u", "s", "c", "l", "a", "s", "s", " ", "s", "t", "u", "d", "e", "n", "t">>,
                 <<"T", "a", "s", "k", " ", "M", "a", "n", "a", "g", "e", "r">>,
                 <<"C", "a", "l", "c", "u", "l", "a", "t", "o", "r">>}

\* the allowed_window_titles arguments of enable_focus_mode in the model
AllowedTitleLists == {{}, {<<"c", "a", "l", "c">>}}

\* _check_restricted_keys, on the given pressed keys
CheckRestrictedKeys(pressed) ==
    \E combo_name \in DOMAIN restricted_keys : restricted_keys[combo_name] \subseteq pressed

\* _is_window_allowed
IsWindowAllowed(window_title) ==
    \/ ~focus_mode_active
    \/ \E allowed \in allowed_windows : Contains(Lower(window_title), Lower(allowed))
    \/ \E system_window \in system_windows :
          Contains(Lower(window_title), Lower(system_window))

\* _log_violation's cooldown test
InCooldown(current_time) == current_time - last_violation_time < SecondTicks

\* _log_violation called from a hook procedure, on the thread that runs the
\* event loop: create_task hands the callback to the loop
LogViolation ==
    IF InCooldown(now)
      THEN UNCHANGED <<last_violation_time, violation_count, callback_tasks>>
      ELSE /\ violation_count < MaxViolations
           /\ last_violation_time' = now
           /\ violation_count' = violation_count + 1
           /\ callback_tasks' = callback_tasks + 1

\* enable_focus_mode, up to the call of _install_keyboard_hook
EnableFocusMode(allowed_window_titles) ==
    /\ main_pc = "loop"
    /\ enable_calls < MaxEnables
    /\ enable_calls' = enable_calls + 1
    /\ focus_mode_active' = TRUE
    /\ allowed_windows' = IF allowed_window_titles = {} THEN {FocusClassStudent}
                                                        ELSE allowed_window_titles
    /\ main_pc' = "install_keyboard_hook"
    /\ UNCHANGED <<pressed_keys, keyboard_hook, window_hook, monitoring_thread,
                   stop_monitoring, violation_count, last_violation_time>>
    /\ UNCHANGED <<os_keyboard_hooks, os_window_hooks, threads, callback_tasks,
                   violation_frames, now>>
    /\ UNCHANGED teacherVars
    /\ UNCHANGED <<hook_return, restVars>>

\* _install_keyboard_hook: SetWindowsHookEx gives a hook, or raises and the
\* exception is logged
InstallKeyboardHook(ok) ==
    /\ main_pc = "install_keyboard_hook"
    /\ IF ok
         THEN /\ keyboard_hook' = enable_calls
              /\ os_keyboard_hooks' = os_keyboard_hooks \cup {enable_calls}
         ELSE UNCHANGED <<keyboard_hook, os_keyboard_hooks>>
    /\ main_pc' = "install_window_hook"
    /\ UNCHANGED <<focus_mode_active, allowed_windows, pressed_keys, window_hook,
                   monitoring_thread, stop_monitoring, violation_count,
                   last_violation_time>>
    /\ UNCHANGED <<enable_calls, os_window_hooks, threads, callback_tasks,
                   violation_frames, now>>
    /\ UNCHANGED teacherVars
    /\ UNCHANGED <<hook_return, restVars>>

\* _install_window_hook, likewise
InstallWindowHook(ok) ==
    /\ main_pc = "install_window_hook"
    /\ IF ok
         THEN /\ window_hook' = enable_calls
              /\ os_window_hooks' = os_window_hooks \cup {enable_calls}
         ELSE UNCHANGED <<window_hook, os_window_hooks>>
    /\ main_pc' = "start_monitoring"
    /\ UNCHANGED <<focus_mode_active, allowed_windows, pressed_keys, keyboard_hook,
                   monitoring_thread, stop_monitoring, violation_count,
                   last_violation_time>>
    /\ UNCHANGED <<enable_calls, os_keyboard_hooks, threads, callback_tasks,
                   violation_frames, now>>
    /\ UNCHANGED teacherVars
    /\ UNCHANGED <<hook_return, restVars>>

\* _start_monitoring, and enable_focus_mode returns True
StartMonitoring ==
    /\ main_pc = "start_monitoring"
    /\ stop_monitoring' = FALSE
    /\ monitoring_thread' = enable_calls
    /\ threads' = [threads EXCEPT ![enable_calls].pc = "loop_head"]
    /\ main_pc' = "loop"
    /\ UNCHANGED <<focus_mode_active, allowed_windows, pressed_keys, keyboard_hook,
                   window_hook, violation_count, last_violation_time>>
    /\ UNCHANGED <<enable_calls, os_keyboard_hooks, os_window_hooks, callback_tasks,
                   violation_frames, now>>
    /\ UNCHANGED teacherVars
    /\ UNCHANGED <<hook_return, restVars>>

\* disable_focus_mode, up to the join of _stop_monitoring
DisableFocusMode ==
    /\ main_pc = "loop"
    /\ focus_mode_active' = FALSE
    /\ IF monitoring_thread # 0
         THEN /\ stop_monitoring' = TRUE
              /\ main_pc' = "join"
         ELSE /\ UNCHANGED stop_monitoring
              /\ main_pc' = "remove_keyboard_hook"
    /\ UNCHANGED <<allowed_windows, pressed_keys, keyboard_hook, window_hook,
                   monitoring_thread, violation_count, last_violation_time>>
    /\ UNCHANGED processVarsButPc
    /\ UNCHANGED teacherVars
    /\ UNCHANGED <<hook_return, restVars>>

\* monitoring_thread.join(timeout=5) returns: the thread has ended, or it is
\* still inside a scan when the timeout expires
Join ==
    /\ main_pc = "join"
    /\ threads[monitoring_thread].pc \in {"exited", "scan", "log_commit"}
    /\ monitoring_thread' = 0
    /\ main_pc' = "remove_keyboard_hook"
    /\ UNCHANGED <<focus_mode_active, allowed_windows, pressed_keys, keyboard_hook,
                   window_hook, stop_monitoring, violation_count, last_violation_time>>
    /\ UNCHANGED processVarsButPc
    /\ UNCHANGED teacherVars
    /\ UNCHANGED <<hook_return, restVars>>

\* _remove_keyboard_hook
RemoveKeyboardHook ==
    /\ main_pc = "remove_keyboard_hook"
    /\ IF keyboard_hook # 0
         THEN /\ os_keyboard_hooks' = os_keyboard_hooks \ {keyboard_hook}
              /\ keyboard_hook' = 0
         ELSE UNCHANGED <<keyboard_hook, os_keyboard_hooks>>
    /\ main_pc' = "remove_window_hook"
    /\ UNCHANGED <<focus_mode_active, allowed_windows, pressed_keys, window_hook,
                   monitoring_thread, stop_monitoring, violation_count,
                   last_violation_time>>
    /\ UNCHANGED <<enable_calls, os_window_hooks, threads, callback_tasks,
                   violation_frames, now>>
    /\ UNCHANGED teacherVars
    /\ UNCHANGED <<hook_return, restVars>>

\* _remove_window_hook, and disable_focus_mode returns
RemoveWindowHook ==
    /\ main_pc = "remove_window_hook"
    /\ IF window_hook # 0
         THEN /\ os_window_hooks' = os_window_hooks \ {window_hook}
              /\ window_hook' = 0
         ELSE UNCHANGED <<window_hook, os_window_hooks>>
    /\ main_pc' = "loop"
    /\ UNCHANGED <<focus_mode_active, allowed_windows, pressed_keys, keyboard_hook,
                   monitoring_thread, stop_monitoring, violation_count,
                   last_violation_time>>
    /\ UNCHANGED <<enable_calls, os_keyboard_hooks, threads, callback_tasks,
                   violation_frames, now>>
    /\ UNCHANGED teacherVars
    /\ UNCHANGED <<hook_return, restVars>>

\* a hook procedure that forwards every event
AlwaysNext(restricted) == "next"

\* keyboard_hook_proc's return value: 1 blocks the key, otherwise the event
\* goes to CallNextHookExW
HookReturn(restricted) == IF restricted THEN "blocked" ELSE "next"

\* keyboard_hook_proc, key down: the system calls it while a hook is installed
\* and the installing thread pumps messages
KeyDown(vk_code) ==
    /\ main_pc = "loop"
    /\ os_keyboard_hooks # {}
    /\ pressed_keys' = pressed_keys \cup {vk_code}
    /\ IF CheckRestrictedKeys(pressed_keys')
         THEN LogViolation
         ELSE UNCHANGED <<last_violation_time, violation_count, callback_tasks>>
    /\ hook_return' = HookReturn(CheckRestrictedKeys(pressed_keys'))
    /\ UNCHANGED <<focus_mode_active, allowed_windows, keyboard_hook, window_hook,
                   monitoring_thread, stop_monitoring>>
    /\ UNCHANGED <<main_pc, enable_calls, os_keyboard_hooks, os_window_hooks, threads,
                   violation_frames, now>>
    /\ UNCHANGED teacherVars
    /\ UNCHANGED restVars

\* keyboard_hook_proc, key up
KeyUp(vk_code) ==
    /\ main_pc = "loop"
    /\ os_keyboard_hooks # {}
    /\ pressed_keys' = pressed_keys \ {vk_code}
    /\ hook_return' = HookReturn(FALSE)
    /\ UNCHANGED <<focus_mode_active, allowed_windows, keyboard_hook, window_hook,
                   monitoring_thread, stop_monitoring, violation_count,
                   last_violation_time>>
    /\ UNCHANGED <<main_pc, enable_calls, os_keyboard_hooks, os_window_hooks, threads,
                   callback_tasks, violation_frames, now>>
    /\ UNCHANGED teacherVars
    /\ UNCHANGED restVars

\* window_hook_proc on EVENT_SYSTEM_FOREGROUND
WindowEvent(window_title) ==
    /\ main_pc = "loop"
    /\ os_window_hooks # {}
    /\ IF window_title # <<>> /\ ~IsWindowAllowed(window_title)
         THEN LogViolation
         ELSE UNCHANGED <<last_violation_time, violation_count, callback_tasks>>
    /\ UNCHANGED <<focus_mode_active, allowed_windows, pressed_keys, keyboard_hook,
                   window_hook, monitoring_thread, stop_monitoring>>
    /\ UNCHANGED <<main_pc, enable_calls, os_keyboard_hooks, os_window_hooks, threads,
                   violation_frames, now>>
    /\ UNCHANGED teacherVars
    /\ UNCHANGED <<hook_return, restVars>>

\* _monitoring_loop, the test of the while and of focus_mode_active
ThreadLoopHead(t) ==
    /\ threads[t].pc = "loop_head"
    /\ threads' = [threads EXCEPT ![t].pc =
                      IF stop_monitoring THEN "exited"
                      ELSE IF focus_mode_active THEN "scan" ELSE "loop_head"]
    /\ threads'[t] # threads[t]
    /\ UNCHANGED engineVars
    /\ UNCHANGED <<main_pc, enable_calls, os_keyboard_hooks, os_window_hooks,
                   callback_tasks, violation_frames, now>>
    /\ UNCHANGED teacherVars
    /\ UNCHANGED <<hook_return, restVars>>

\* _check_unauthorized_processes / _check_screen_recording meet a listed
\* process: _log_violation reads the clock and makes the cooldown test
ThreadDetect(t) ==
    /\ threads[t].pc = "scan"
    /\ ~InCooldown(now)
    /\ threads' = [threads EXCEPT ![t] = [pc |-> "log_commit", current_time |-> now]]
    /\ UNCHANGED engineVars
    /\ UNCHANGED <<main_pc, enable_calls, os_keyboard_hooks, os_window_hooks,
                   callback_tasks, violation_frames, now>>
    /\ UNCHANGED teacherVars
    /\ UNCHANGED <<hook_return, restVars>>

\* _log_violation on the monitoring thread, after the test: the assignments,
\* and create_task, which raises RuntimeError off the loop's thread; the
\* exception is logged and the callback is not scheduled
ThreadLogCommit(t) ==
    /\ threads[t].pc = "log_commit"
    /\ violation_count < MaxViolations
    /\ last_violation_time' = threads[t].current_time
    /\ violation_count' = violation_count + 1
    /\ threads' = [threads EXCEPT ![t] = [pc |-> "scan", current_time |-> 0]]
    /\ UNCHANGED <<focus_mode_active, allowed_windows, pressed_keys, keyboard_hook,
                   window_hook, monitoring_thread, stop_monitoring>>
    /\ UNCHANGED <<main_pc, enable_calls, os_keyboard_hooks, os_window_hooks,
                   callback_tasks, violation_frames, now>>
    /\ UNCHANGED teacherVars
    /\ UNCHANGED <<hook_return, restVars>>

\* the checks of one iteration are over: time.sleep(1), back to the while
ThreadScanDone(t) ==
    /\ threads[t].pc = "scan"
    /\ threads' = [threads EXCEPT ![t].pc = "loop_head"]
    /\ UNCHANGED engineVars
    /\ UNCHANGED <<main_pc, enable_calls, os_keyboard_hooks, os_window_hooks,
                   callback_tasks, violation_frames, now>>
    /\ UNCHANGED teacherVars
    /\ UNCHANGED <<hook_return, restVars>>

\* StudentMainWindow.handle_violation runs on the loop: the violation is sent
\* to the teacher
RunViolationCallback ==
    /\ main_pc = "loop"
    /\ callback_tasks > 0
    /\ callback_tasks' = callback_tasks - 1
    /\ violation_frames' = violation_frames + 1
    /\ UNCHANGED engineVars
    /\ UNCHANGED <<main_pc, enable_calls, os_keyboard_hooks, os_window_hooks, threads, now>>
    /\ UNCHANGED teacherVars
    /\ UNCHANGED <<hook_return, restVars>>

\* the teacher's dispatcher takes a violation message of the student
DeliverViolation ==
    /\ violation_frames > 0
    /\ violation_frames' = violation_frames - 1
    /\ HandleViolation("c1")
    /\ UNCHANGED engineVars
    /\ UNCHANGED <<main_pc, enable_calls, os_keyboard_hooks, os_window_hooks, threads,
                   callback_tasks, now>>
    /\ UNCHANGED <<hook_return, restVars>>

\* the clock advances
Tick ==
    /\ now < MaxTime
    /\ now' = now + 1
    /\ UNCHANGED engineVars
    /\ UNCHANGED <<main_pc, enable_calls, os_keyboard_hooks, os_window_hooks, threads,
                   callback_tasks, violation_frames>>
    /\ UNCHANGED teacherVars
    /\ UNCHANGED <<hook_return, restVars>>

\* ------------------------------------------------- LightweightFocusManager
\* LightweightFocusManager._is_window_allowed
LwIsWindowAllowed(window_title) ==
    \E allowed \in lw_allowed_windows : Contains(Lower(window_title), Lower(allowed))

\* LightweightFocusManager.enable_focus_mode: a _monitor_windows task is created
lw_enable_focus_mode(allowed_window_titles) ==
    /\ lw_tasks < MaxEnables
    /\ lw_focus_mode_active' = TRUE
    /\ lw_allowed_windows' = IF allowed_window_titles = {} THEN {FocusClassStudent}
                                                           ELSE allowed_window_titles
    /\ lw_tasks' = lw_tasks + 1

\* LightweightFocusManager.disable_focus_mode
lw_disable_focus_mode ==
    /\ lw_focus_mode_active' = FALSE
    /\ UNCHANGED <<lw_allowed_windows, lw_tasks>>

\* enable_focus_mode called on the engine directly
LwEnableFocusMode(allowed_window_titles) ==
    /\ lw_enable_focus_mode(allowed_window_titles)
    /\ UNCHANGED foreground
    /\ UNCHANGED <<teacherVars, engineVars, processVars, captureVars, trackVars, appVars, otherVars>>

\* disable_focus_mode called on the engine directly
LwDisableFocusMode ==
    /\ lw_disable_focus_mode
    /\ UNCHANGED foreground
    /\ UNCHANGED <<teacherVars, engineVars, processVars, captureVars, trackVars, appVars, otherVars>>

\* one turn of a _monitor_windows task: it ends when the engine is inactive,
\* otherwise it looks at the foreground window and awaits the callback on a
\* title that is not allowed, which sends the violation to the teacher
LwMonitorWindows ==
    /\ lw_tasks > 0
    /\ IF ~lw_focus_mode_active
         THEN /\ lw_tasks' = lw_tasks - 1
              /\ UNCHANGED violation_frames
         ELSE /\ UNCHANGED lw_tasks
              /\ IF foreground # <<>> /\ ~LwIsWindowAllowed(foreground)
                   THEN /\ violation_frames < MaxViolations
                        /\ violation_frames' = violation_frames + 1
                   ELSE UNCHANGED violation_frames
    /\ UNCHANGED <<lw_focus_mode_active, lw_allowed_windows, foreground>>
    /\ UNCHANGED <<main_pc, enable_calls, os_keyboard_hooks, os_window_hooks, threads,
                   callback_tasks, hook_return, now>>
    /\ UNCHANGED <<teacherVars, engineVars, captureVars, trackVars, appVars, otherVars>>

\* another window comes to the foreground
SetForeground(window_title) ==
    /\ foreground' = window_title
    /\ UNCHANGED <<lw_focus_mode_active, lw_allowed_windows, lw_tasks>>
    /\ UNCHANGED <<teacherVars, engineVars, processVars, captureVars, trackVars, appVars, otherVars>>

\* ------------------------------------------------------------ ScreenCapture
\* self.quality_presets
quality_presets ==
    [low |-> [fps |-> 10, scale |-> 50],
     medium |-> [fps |-> 15, scale |-> 75],
     high |-> [fps |-> 20, scale |-> 100],
     ultra |-> [fps |-> 30, scale |-> 100]]

\* the arguments of set_quality, set_custom_settings and start_capture in the
\* model
Qualities == {"low", "medium", "best"}
CustomSettings == {[fps |-> 1, scale |-> 100], [fps |-> 0, scale |-> 300]}
MonitorArgs == 0..MonitorCount

Max(a, b) == IF a >= b THEN a ELSE b
Min(a, b) == IF a <= b THEN a ELSE b

\* what leaves the track alone
trackUnchanged == UNCHANGED trackVars

\* set_quality
set_quality(q) ==
    /\ IF q \in DOMAIN quality_presets
         THEN /\ fps' = quality_presets[q].fps
              /\ scale_factor' = quality_presets[q].scale
              /\ quality' = q
         ELSE UNCHANGED <<fps, scale_factor, quality>>
    /\ capture_call' = Call("set_quality", 0)
    /\ UNCHANGED <<webrtc_available, is_capturing, capture_track, current_monitor,
                   tracks_created, returned>>
    /\ trackUnchanged

\* set_custom_settings
set_custom_settings(new_fps, new_scale) ==
    /\ fps' = Max(MinFps, Min(MaxFps, new_fps))
    /\ scale_factor' = Max(MinScale, Min(MaxScale, new_scale))
    /\ quality' = "custom"
    /\ capture_call' = Call("set_custom_settings", 0)
    /\ UNCHANGED <<webrtc_available, is_capturing, capture_track, current_monitor,
                   tracks_created, returned>>
    /\ trackUnchanged

\* a start_capture without its first test
NeverCapturing == FALSE

\* start_capture's first test: a capture is active already
AlreadyCapturing == is_capturing

\* start_capture(monitor); constructed tells whether the construction of the
\* ScreenCaptureTrack goes through or raises
start_capture(monitor, constructed) ==
    /\ capture_call' = Call("start_capture", monitor)
    /\ IF AlreadyCapturing
         THEN /\ returned' = capture_track
              /\ UNCHANGED <<is_capturing, capture_track, current_monitor, tracks_created>>
              /\ trackUnchanged
         ELSE IF monitor >= MonitorCount
         THEN /\ returned' = None
              /\ UNCHANGED <<is_capturing, capture_track, current_monitor, tracks_created>>
              /\ trackUnchanged
         ELSE /\ current_monitor' = monitor
              /\ IF ~webrtc_available
                   THEN /\ capture_track' = BasicCapture
                        /\ is_capturing' = TRUE
                        /\ returned' = BasicCapture
                        /\ UNCHANGED tracks_created
                        /\ trackUnchanged
                   ELSE IF constructed
                   THEN /\ tracks_created < MaxTracks
                        /\ tracks_created' = tracks_created + 1
                        /\ capture_track' = Track(tracks_created + 1)
                        /\ is_capturing' = TRUE
                        /\ returned' = Track(tracks_created + 1)
                        /\ track_fps' = fps
                        /\ track_scale_factor' = scale_factor
                        /\ frame_returned_at' = 0
                        /\ frame_count' = 0
                        /\ last_frame_time' = 0
                        /\ frame_pts' = -1
                        /\ recv_pc' = "idle"
                        /\ recv_current_time' = 0
                        /\ recv_wake' = 0
                   ELSE /\ returned' = None
                        /\ UNCHANGED <<is_capturing, capture_track, tracks_created>>
                        /\ trackUnchanged
    /\ UNCHANGED <<webrtc_available, fps, scale_factor, quality>>

\* a stop_capture that goes back to the quality of __init__
InitialQuality == "medium"

\* stop_capture assigns is_capturing and capture_track only: the quality stays
StoppedQuality == quality

\* stop_capture's first test: nothing is being captured
NotCapturing == ~is_capturing

\* stop_capture
stop_capture ==
    /\ capture_call' = Call("stop_capture", 0)
    /\ IF NotCapturing
         THEN UNCHANGED <<is_capturing, capture_track>>
         ELSE /\ is_capturing' = FALSE
              /\ capture_track' = None
    /\ quality' = StoppedQuality
    /\ UNCHANGED <<webrtc_available, current_monitor, fps, scale_factor,
                   tracks_created, returned>>
    /\ trackUnchanged

\* the methods called on a capture manager that nothing else uses
captureAlone == UNCHANGED <<teacherVars, engineVars, processVars, lightweightVars, appVars,
                            otherVars>>

\* set_quality called on the capture manager
SetQuality(q) == set_quality(q) /\ captureAlone

\* set_custom_settings called on the capture manager
SetCustomSettings(new_fps, new_scale) == set_custom_settings(new_fps, new_scale) /\ captureAlone

\* start_capture called on the capture manager
StartCapture(monitor, constructed) == start_capture(monitor, constructed) /\ captureAlone

\* stop_capture called on the capture manager
StopCapture == stop_capture /\ captureAlone

\* ------------------------------------------------------- ScreenCaptureTrack
\* self.frame_duration = 1.0 / fps, in ticks
FrameDuration == SecondTicks \div track_fps

\* recv, up to the capture: the clock is read and the pull sleeps for what is
\* left of the frame duration
Recv ==
    /\ capture_track \notin {None, BasicCapture}
    /\ recv_pc = "idle"
    /\ frame_count < MaxFrames
    /\ recv_current_time' = now
    /\ IF now - last_frame_time < FrameDuration
         THEN /\ recv_pc' = "sleep"
              /\ recv_wake' = now + (FrameDuration - (now - last_frame_time))
         ELSE /\ recv_pc' = "capture"
              /\ UNCHANGED recv_wake
    /\ UNCHANGED <<track_fps, track_scale_factor, frame_count, last_frame_time, frame_pts,
                   frame_returned_at>>
    /\ UNCHANGED <<teacherVars, engineVars, processVars, lightweightVars, captureVars, appVars,
                   otherVars>>

\* asyncio.sleep returns
RecvWake ==
    /\ recv_pc = "sleep"
    /\ now >= recv_wake
    /\ recv_pc' = "capture"
    /\ UNCHANGED <<track_fps, track_scale_factor, frame_count, last_frame_time, frame_pts,
                   frame_returned_at, recv_current_time, recv_wake>>
    /\ UNCHANGED <<teacherVars, engineVars, processVars, lightweightVars, captureVars, appVars,
                   otherVars>>

\* a black frame that takes the pts of the frame before it
PreviousPts == Max(frame_count - 1, 0)

\* the pts of the frame recv returns, with the frame counter as it is
FramePts == frame_count

\* recv, the capture: the screen is grabbed and the frame returned, or the
\* grab raises and a black frame is returned
RecvCapture(grabbed) ==
    /\ recv_pc = "capture"
    /\ frame_pts' = FramePts
    /\ frame_count' = frame_count + 1
    /\ last_frame_time' = IF grabbed THEN recv_current_time ELSE last_frame_time
    /\ recv_pc' = "idle"
    /\ frame_returned_at' = now
    /\ UNCHANGED <<track_fps, track_scale_factor, recv_current_time, recv_wake>>
    /\ UNCHANGED <<teacherVars, engineVars, processVars, lightweightVars, captureVars, appVars,
                   otherVars>>

\* ---------------------------------------------------------- AdaptiveQuality
\* self.quality_levels; current_level_index counts from 0 as in the source
quality_levels == <<"low", "medium", "high", "ultra">>

\* quality_levels[index]
LevelAt(index) == quality_levels[index + 1]

\* quality_levels.index(q)
LevelIndex(q) == CHOOSE index \in 0..(Len(quality_levels) - 1) : LevelAt(index) = q

\* the samples update_network_metrics is fed in the model
Samples == {[latency |-> 20, packet_loss |-> 0],
            [latency |-> 20, packet_loss |-> 10],
            [latency |-> 50, packet_loss |-> 0],
            [latency |-> 149, packet_loss |-> 49],
            [latency |-> 150, packet_loss |-> 0],
            [latency |-> 300, packet_loss |-> 200]}

\* the qualities force_quality is called with in the model
ForcedQualities == {"low", "ultra", "custom"}

\* a classification that takes the limits themselves for good and fair
LenientQuality(sample_latency, packet_loss) ==
    IF sample_latency <= GoodLatency /\ packet_loss <= GoodLoss THEN "good"
    ELSE IF sample_latency <= FairLatency /\ packet_loss <= FairLoss THEN "fair"
    ELSE "poor"

\* update_network_metrics: "Determine network quality"
NetworkQuality(sample_latency, packet_loss) ==
    IF sample_latency < GoodLatency /\ packet_loss < GoodLoss THEN "good"
    ELSE IF sample_latency < FairLatency /\ packet_loss < FairLoss THEN "fair"
    ELSE "poor"

\* the adjustment interval in ticks
AdjustmentTicks == adjustment_interval * SecondTicks

\* an adjustment on every sample
AlwaysDue(current_time) == TRUE

\* update_network_metrics: "Check if adjustment is needed"
AdjustmentDue(current_time) == current_time - last_adjustment > AdjustmentTicks

\* a decrease that goes to the lowest level at once
LowestLevel(index) == 0

\* _adjust_quality: self.current_level_index -= 1
LevelBelow(index) == index - 1

\* an increase that stays where it is
SameLevel(index) == index

\* _adjust_quality: self.current_level_index += 1
LevelAbove(index) == index + 1

\* _adjust_quality: the index after the adjustment
AdjustedLevel(quality_now, index) ==
    IF quality_now = "poor" /\ index > 0 THEN LevelBelow(index)
    ELSE IF quality_now = "good" /\ index < Len(quality_levels) - 1 THEN LevelAbove(index)
    ELSE index

\* _adjust_quality, with network_quality as just classified
adjust_quality(quality_now) ==
    /\ current_level_index' = AdjustedLevel(quality_now, current_level_index)
    /\ IF LevelAt(current_level_index') # LevelAt(current_level_index)
         THEN set_quality(LevelAt(current_level_index'))
         ELSE UNCHANGED <<captureVars, trackVars>>

\* what the controller and its capture manager do not touch
adaptiveFrame ==
    UNCHANGED <<teacherVars, engineVars, processVars, lightweightVars, appVars, videoVars,
                sharingVars, approvalVars>>

\* update_network_metrics
UpdateNetworkMetrics(sample_latency, packet_loss) ==
    /\ latency' = sample_latency
    /\ frame_loss_rate' = packet_loss
    /\ network_quality' = NetworkQuality(sample_latency, packet_loss)
    /\ IF AdjustmentDue(now)
         THEN /\ adjust_quality(network_quality')
              /\ last_adjustment' = now
         ELSE UNCHANGED <<current_level_index, last_adjustment, captureVars, trackVars>>
    /\ adaptiveFrame

\* a force_quality that forces medium whatever it is asked for
MediumIndex(q) == 1

\* force_quality: the index of the forced level
ForcedIndex(q) == LevelIndex(q)

\* force_quality
ForceQuality(q) ==
    /\ IF \E index \in 0..(Len(quality_levels) - 1) : LevelAt(index) = q
         THEN /\ current_level_index' = ForcedIndex(q)
              /\ set_quality(q)
         ELSE UNCHANGED <<current_level_index, captureVars, trackVars>>
    /\ UNCHANGED <<network_quality, frame_loss_rate, latency, last_adjustment>>
    /\ adaptiveFrame

\* set_quality and set_custom_settings called on the capture manager that the
\* controller adjusts
DirectSetQuality(q) ==
    /\ set_quality(q)
    /\ UNCHANGED adaptiveVars
    /\ adaptiveFrame

DirectSetCustomSettings(new_fps, new_scale) ==
    /\ set_custom_settings(new_fps, new_scale)
    /\ UNCHANGED adaptiveVars
    /\ adaptiveFrame

\* the clock advances, over the adjustment intervals that are followed
TickInterval ==
    /\ now <= MaxIntervals * (AdjustmentTicks + 1)
    /\ now' = now + 1
    /\ UNCHANGED engineVars
    /\ UNCHANGED <<main_pc, enable_calls, os_keyboard_hooks, os_window_hooks, threads,
                   callback_tasks, violation_frames>>
    /\ UNCHANGED teacherVars
    /\ UNCHANGED <<hook_return, restVars>>

\* -------------------------------------- StudentMainWindow, AdvancedStudentApp
\* the student's engine is the LightweightFocusManager of a student without
\* administrator rights; the handlers run on the event loop one at a time

\* the engine is left as it is
engineKept == UNCHANGED <<lw_focus_mode_active, lw_allowed_windows, lw_tasks>>

\* the capture manager of the StudentScreenShare is left as it is
captureKept == UNCHANGED <<captureVars, trackVars>>

\* what no handler of the student touches
appFrame == UNCHANGED <<teacherVars, engineVars, processVars, foreground, otherVars>>

\* the _monitor_windows tasks that enable_focus_mode calls on the engine create
EngineEnables(calls) ==
    /\ lw_tasks + calls <= MaxEnables
    /\ lw_focus_mode_active' = TRUE
    /\ lw_allowed_windows' = {FocusClassStudent}
    /\ lw_tasks' = lw_tasks + calls

\* StudentMainWindow.enable_focus_mode
enable_focus_mode ==
    IF ~student_focus_mode_active
      THEN /\ lw_enable_focus_mode({FocusClassStudent})
           /\ student_focus_mode_active' = TRUE
      ELSE /\ engineKept
           /\ UNCHANGED student_focus_mode_active

\* the test of disable_focus_mode and of handle_disconnection before the
\* engine is disabled
FocusModeKnown == student_focus_mode_active

\* StudentMainWindow.disable_focus_mode
disable_focus_mode ==
    IF FocusModeKnown
      THEN /\ lw_disable_focus_mode
           /\ student_focus_mode_active' = FALSE
      ELSE /\ engineKept
           /\ UNCHANGED student_focus_mode_active

\* StudentScreenShare.stop_sharing
stop_sharing ==
    IF ~is_sharing
      THEN /\ captureKept
           /\ UNCHANGED <<is_sharing, share_track>>
      ELSE /\ stop_capture
           /\ trackUnchanged
           /\ share_track' = None
           /\ is_sharing' = FALSE

\* handle_auth_success
HandleAuthSuccess(focus_mode) ==
    /\ share_pc = "idle"
    /\ connected' = TRUE
    /\ heartbeat_timer' = TRUE
    /\ IF focus_mode
         THEN enable_focus_mode
         ELSE /\ engineKept
              /\ UNCHANGED student_focus_mode_active
    /\ UNCHANGED <<restrictions_active, secure_mode_active, is_sharing, share_track, share_pc>>
    /\ captureKept
    /\ appFrame

\* handle_focus_mode
HandleFocusMode(enabled) ==
    /\ share_pc = "idle"
    /\ connected
    /\ IF enabled THEN enable_focus_mode ELSE disable_focus_mode
    /\ UNCHANGED <<connected, restrictions_active, secure_mode_active, heartbeat_timer,
                   is_sharing, share_track, share_pc>>
    /\ captureKept
    /\ appFrame

\* handle_restriction_change
HandleRestrictionChange(level) ==
    /\ share_pc = "idle"
    /\ connected
    /\ IF level = "high"
         THEN /\ restrictions_active' = TRUE
              /\ lw_enable_focus_mode({FocusClassStudent})
         ELSE /\ restrictions_active' = FALSE
              /\ engineKept
    /\ UNCHANGED <<connected, student_focus_mode_active, secure_mode_active,
                   heartbeat_timer, is_sharing, share_track, share_pc>>
    /\ captureKept
    /\ appFrame

\* AdvancedStudentApp.handle_force_focus: enable_secure_mode and
\* enable_focus_mode, or disable_secure_mode and disable_focus_mode
HandleForceFocus(enabled) ==
    /\ share_pc = "idle"
    /\ connected
    /\ IF enabled
         THEN /\ secure_mode_active' = TRUE
              /\ EngineEnables(IF student_focus_mode_active THEN 1 ELSE 2)
              /\ student_focus_mode_active' = TRUE
         ELSE /\ secure_mode_active' = FALSE
              /\ disable_focus_mode
    /\ UNCHANGED <<connected, restrictions_active, heartbeat_timer, is_sharing,
                   share_track, share_pc>>
    /\ captureKept
    /\ appFrame

\* handle_screen_request with the request approved, up to _start_sharing's
\* set_quality
StartSharing ==
    /\ share_pc = "idle"
    /\ connected
    /\ IF is_sharing
         THEN /\ captureKept
              /\ UNCHANGED share_pc
         ELSE /\ set_quality("medium")
              /\ share_pc' = "start_capture"
    /\ UNCHANGED <<connected, student_focus_mode_active, restrictions_active,
                   secure_mode_active, heartbeat_timer, is_sharing, share_track>>
    /\ UNCHANGED lightweightVars
    /\ UNCHANGED <<teacherVars, engineVars, processVars, otherVars>>

\* _start_sharing, from start_capture on
StartSharingCapture(constructed) ==
    /\ share_pc = "start_capture"
    /\ start_capture(0, constructed)
    /\ share_track' = returned'
    /\ is_sharing' = (returned' # None)
    /\ share_pc' = "idle"
    /\ UNCHANGED <<connected, student_focus_mode_active, restrictions_active,
                   secure_mode_active, heartbeat_timer>>
    /\ UNCHANGED lightweightVars
    /\ UNCHANGED <<teacherVars, engineVars, processVars, otherVars>>

\* handle_disconnection
HandleDisconnection ==
    /\ share_pc = "idle"
    /\ connected
    /\ connected' = FALSE
    /\ disable_focus_mode
    /\ stop_sharing
    /\ heartbeat_timer' = FALSE
    /\ UNCHANGED <<restrictions_active, secure_mode_active, share_pc>>
    /\ appFrame

\* ------------------------------------ StudentScreenShare: share requests
\* what the calls on the StudentScreenShare do not touch
approvalFrame ==
    UNCHANGED <<teacherVars, engineVars, processVars, lightweightVars, videoVars,
                adaptiveVars, sharingVars>>
    /\ UNCHANGED <<connected, student_focus_mode_active, restrictions_active,
                   secure_mode_active, heartbeat_timer>>

\* set_auto_approve
SetAutoApprove(auto, confirmation) ==
    /\ share_pc = "idle"
    /\ auto_approve' = auto
    /\ require_confirmation' = confirmation
    /\ UNCHANGED <<approval_callback, share_asked, share_approved, share_reply>>
    /\ UNCHANGED <<is_sharing, share_track, share_pc>>
    /\ captureKept
    /\ approvalFrame

\* a request that is approved whenever auto_approve is set
AutoApproveAlone == auto_approve

\* handle_share_request's test for starting without asking
AutoApproves == auto_approve /\ ~require_confirmation

\* _start_sharing, up to start_capture
start_sharing ==
    IF is_sharing
      THEN /\ captureKept
           /\ UNCHANGED share_pc
           /\ share_reply' = "started"
      ELSE /\ set_quality("medium")
           /\ share_pc' = "start_capture"
           /\ share_reply' = "starting"

\* handle_share_request; approved is what the approval callback returns when
\* it is called
HandleShareRequest(approved) ==
    /\ share_pc = "idle"
    /\ IF AutoApproves
         THEN /\ start_sharing
              /\ share_asked' = FALSE
              /\ share_approved' = FALSE
         ELSE IF approval_callback
         THEN /\ share_asked' = TRUE
              /\ share_approved' = approved
              /\ IF approved
                   THEN start_sharing
                   ELSE /\ captureKept
                        /\ UNCHANGED share_pc
                        /\ share_reply' = "denied"
         ELSE /\ share_asked' = FALSE
              /\ share_approved' = FALSE
              /\ captureKept
              /\ UNCHANGED share_pc
              /\ share_reply' = "not configured"
    /\ UNCHANGED <<auto_approve, require_confirmation, approval_callback>>
    /\ UNCHANGED <<is_sharing, share_track>>
    /\ approvalFrame

\* _start_sharing from start_capture on, for the request in progress
ShareRequestCapture(constructed) ==
    /\ share_pc = "start_capture"
    /\ start_capture(0, constructed)
    /\ share_track' = returned'
    /\ is_sharing' = (returned' # None)
    /\ share_pc' = "idle"
    /\ share_reply' = IF returned' # None THEN "started" ELSE "failed"
    /\ UNCHANGED <<auto_approve, require_confirmation, approval_callback, share_asked,
                   share_approved>>
    /\ approvalFrame

\* stop_sharing called on the StudentScreenShare
StopSharing ==
    /\ share_pc = "idle"
    /\ stop_sharing
    /\ UNCHANGED share_pc
    /\ UNCHANGED approvalVars
    /\ approvalFrame

\* _stop_session_async resumes from stop_server: the rest of the coroutine
\* has no await; a screen sharing that is active is stopped
StopFinish ==
    /\ stop_pc = "stop_server"
    /\ IF screen_sharing_active
         THEN /\ stop_capture
              /\ screen_sharing_active' = FALSE
         ELSE UNCHANGED <<captureVars, trackVars, screen_sharing_active>>
    /\ session_active' = FALSE
    /\ connected_students' = ClearStudents
    /\ stop_pc' = "idle"
    /\ UNCHANGED <<session_id, start_task, db_sessions, server>>
    /\ UNCHANGED <<configVars, malicious_activities, auth_task, sent, removalVars>>
    /\ UNCHANGED <<engineVars, processVars, lightweightVars, appVars, videoVars, adaptiveVars,
                   approvalVars, basic_sharing_timer, sharing_pc, sharing_toast>>

\* ------------------------------------- TeacherMainWindow: screen sharing
\* the capture manager is the teacher's self.screen_capture

\* what the screen sharing calls of the teacher do not touch
sharingFrame ==
    UNCHANGED <<lifecycleVars, configVars, registryVars, removalVars, engineVars,
                processVars, lightweightVars, appVars, videoVars, adaptiveVars,
                approvalVars>>

\* start_capture(self, monitor=0) takes the monitor and nothing else: a call
\* with more arguments raises TypeError
StartCaptureTakes(arguments) == arguments <= 1

\* _start_screen_sharing_async: it calls start_capture(monitor_index, quality)
StartScreenSharingAsync(constructed) ==
    /\ sharing_pc = "idle"
    /\ IF screen_sharing_active
         THEN /\ sharing_toast' = "already active"
              /\ UNCHANGED <<captureVars, trackVars, sent, basic_sharing_timer,
                             screen_sharing_active>>
         ELSE IF ~StartCaptureTakes(2)
         THEN /\ sharing_toast' = "error"
              /\ UNCHANGED <<captureVars, trackVars, sent, basic_sharing_timer,
                             screen_sharing_active>>
         ELSE /\ start_capture(0, constructed)
              /\ IF returned' # None
                   THEN /\ sent' = Broadcast(ScreenSharingAction("start"))
                        /\ basic_sharing_timer' = TRUE
                        /\ screen_sharing_active' = TRUE
                        /\ sharing_toast' = "started"
                   ELSE /\ sharing_toast' = "failed"
                        /\ UNCHANGED <<sent, basic_sharing_timer, screen_sharing_active>>
    /\ UNCHANGED sharing_pc
    /\ sharingFrame

\* _stop_screen_sharing_async, up to the await of broadcast_message
StopScreenSharingAsync ==
    /\ sharing_pc = "idle"
    /\ IF ~screen_sharing_active
         THEN /\ sharing_toast' = "not active"
              /\ UNCHANGED <<captureVars, trackVars, sent, basic_sharing_timer, sharing_pc>>
         ELSE /\ basic_sharing_timer' = FALSE
              /\ stop_capture
              /\ sent' = Broadcast(ScreenSharingAction("stop"))
              /\ sharing_pc' = "stop_broadcast"
              /\ UNCHANGED sharing_toast
    /\ UNCHANGED screen_sharing_active
    /\ sharingFrame

\* _stop_screen_sharing_async resumes from broadcast_message
StopScreenSharingFinish ==
    /\ sharing_pc = "stop_broadcast"
    /\ screen_sharing_active' = FALSE
    /\ sharing_toast' = "stopped"
    /\ sharing_pc' = "idle"
    /\ UNCHANGED <<captureVars, trackVars, sent, basic_sharing_timer>>
    /\ sharingFrame

\* start_screen_sharing, up to start_capture: set_quality("medium")
StartScreenSharing ==
    /\ sharing_pc = "idle"
    /\ set_quality("medium")
    /\ sharing_pc' = "start_capture"
    /\ UNCHANGED <<sent, screen_sharing_active, basic_sharing_timer, sharing_toast>>
    /\ sharingFrame

\* start_screen_sharing from start_capture on: with a track the flag is set
\* and the broadcast scheduled, and the timer is started for a track without
\* recv; without a track the exception raised is caught
StartScreenSharingCapture(constructed) ==
    /\ sharing_pc = "start_capture"
    /\ start_capture(0, constructed)
    /\ IF returned' # None
         THEN /\ screen_sharing_active' = TRUE
              /\ sent' = Broadcast(ScreenSharingEnabled(TRUE))
              /\ basic_sharing_timer' = IF returned' = BasicCapture THEN TRUE
                                                                    ELSE basic_sharing_timer
              /\ sharing_toast' = "started"
         ELSE /\ sharing_toast' = "failed"
              /\ UNCHANGED <<screen_sharing_active, sent, basic_sharing_timer>>
    /\ sharing_pc' = "idle"
    /\ sharingFrame

\* stop_screen_sharing
StopScreenSharing ==
    /\ sharing_pc = "idle"
    /\ basic_sharing_timer' = FALSE
    /\ stop_capture
    /\ screen_sharing_active' = FALSE
    /\ sent' = Broadcast(ScreenSharingEnabled(FALSE))
    /\ sharing_toast' = "stopped"
    /\ UNCHANGED sharing_pc
    /\ sharingFrame

\* capture_and_send_frame, on a tick of the timer or called directly;
\* capture_frame_data gives no frame when nothing is being captured or when
\* the screenshot fails
CaptureAndSendFrame(screenshot) ==
    /\ sharing_pc = "idle"
    /\ is_capturing
    /\ sent' = IF screenshot THEN Broadcast(ScreenFrame) ELSE sent
    /\ sharing_toast' = IF screenshot THEN "frame" ELSE "no frame"
    /\ UNCHANGED <<captureVars, trackVars, screen_sharing_active, basic_sharing_timer,
                   sharing_pc>>
    /\ sharingFrame

\* ------------------------------------ StudentMainWindow: the teacher's screen
\* the student whose application is modelled
StudentClient == "c1"

\* data.get("action", "start")
ActionOf(msg) == IF msg.action = "" THEN "start" ELSE msg.action

\* what the handlers of the teacher's screen do not touch
videoFrame ==
    UNCHANGED <<teacherVars, engineVars, processVars, lightweightVars, captureVars,
                trackVars, appVars, adaptiveVars, sharingVars, approvalVars>>

\* handle_screen_sharing, on the screen_sharing message sent last
HandleScreenSharing ==
    /\ sent[StudentClient].type = "screen_sharing"
    /\ IF ActionOf(sent[StudentClient]) = "start"
         THEN /\ video_connected' = TRUE
              /\ UNCHANGED current_frame
         ELSE /\ video_connected' = FALSE
              /\ current_frame' = FALSE
    /\ videoFrame

\* handle_screen_frame, on the screen_frame message sent last; loaded tells
\* whether the pixmap could be loaded from the data
HandleScreenFrame(loaded) ==
    /\ sent[StudentClient].type = "screen_frame"
    /\ IF loaded
         THEN /\ current_frame' = TRUE
              /\ video_connected' = TRUE
         ELSE UNCHANGED <<current_frame, video_connected>>
    /\ videoFrame

Next ==
    \/ StartSession
    \/ QuickStartSession
    \/ StartCreateSession
    \/ StartServer
    \/ StartFinish
    \/ StopSession
    \/ StopEndSession
    \/ StopFinish
    \/ \E c \in Clients, code \in Codes, pw \in Passwords : Authenticate(c, code, pw)
    \/ \E c \in Clients : AuthenticateFinish(c)

Spec == Init /\ [][Next]_vars

\* a session started with ("ABCD1234", "p@ss") and nobody admitted yet
InitActive ==
    /\ InitStudent
    /\ InitCapture(TRUE)
    /\ InitApp
    /\ InitOther
    /\ InitScreenShare(TRUE)
    /\ InitRemoval
    /\ session_id = 1
    /\ session_active = TRUE
    /\ teacher_focus_mode_active = FALSE
    /\ keystroke_monitoring = TRUE
    /\ charging_monitoring = TRUE
    /\ connected_students = NoStudents
    /\ malicious_activities = [c \in Clients |-> 0]
    /\ start_task = IdleStart
    /\ stop_pc = "idle"
    /\ toggle_task = IdleToggle
    /\ auth_task = [c \in Clients |-> IdleAuth]
    /\ db_sessions = 1
    /\ server = StartTeacherServer("ABCD1234", "p@ss")
    /\ sent = [c \in Clients |-> NoMessage]

NextConfig ==
    \/ \E enabled \in BOOLEAN : ToggleFocusMode(enabled)
    \/ ToggleBroadcast
    \/ ToggleFinish
    \/ \E enabled \in BOOLEAN : ToggleKeystrokeMonitoring(enabled)
    \/ \E enabled \in BOOLEAN : ToggleBatteryMonitoring(enabled)
    \/ \E c \in Clients : Authenticate(c, server.session_code, server.password)
    \/ \E c \in Clients : AuthenticateFinish(c)

SpecConfig == InitActive /\ [][NextConfig]_vars
NextRegistry ==
    \/ \E c \in Clients : Authenticate(c, server.session_code, server.password)
    \/ \E c \in Clients : AuthenticateFinish(c)
    \/ \E c \in Clients : HandleViolation(c) /\ UNCHANGED studentVars
    \/ \E c \in Clients, focus_active \in BOOLEAN, stats \in SystemStats :
          HandleHeartbeat(c, focus_active, stats) /\ UNCHANGED studentVars
    \/ \E c \in Clients, count \in KeystrokeCounts :
          HandleKeystrokeData(c, count) /\ UNCHANGED studentVars
    \/ \E c \in Clients, level \in BatteryLevels, charging \in BOOLEAN :
          HandleBatteryStatus(c, level, charging) /\ UNCHANGED studentVars
    \/ \E c \in Clients, cpu \in CpuUsages :
          HandleSystemInfo(c, cpu) /\ UNCHANGED studentVars
    \/ \E c \in Clients : HandleMaliciousActivity(c) /\ UNCHANGED studentVars

SpecRegistry == InitActive /\ [][NextRegistry]_vars

\* a session with the student behind "c1" admitted
InitFocus ==
    /\ InitStudent
    /\ InitCapture(TRUE)
    /\ InitApp
    /\ InitOther
    /\ InitScreenShare(TRUE)
    /\ InitRemoval
    /\ session_id = 1
    /\ session_active = TRUE
    /\ teacher_focus_mode_active = FALSE
    /\ keystroke_monitoring = TRUE
    /\ charging_monitoring = TRUE
    /\ connected_students = [c \in {"c1"} |-> NewStudent]
    /\ malicious_activities = [c \in Clients |-> 0]
    /\ start_task = IdleStart
    /\ stop_pc = "idle"
    /\ toggle_task = IdleToggle
    /\ auth_task = [c \in Clients |-> IdleAuth]
    /\ db_sessions = 1
    /\ server = StartTeacherServer("ABCD1234", "p@ss")
    /\ sent = [c \in Clients |-> IF c = "c1" THEN AuthSuccessPayload ELSE NoMessage]

NextFocus ==
    \/ \E titles \in AllowedTitleLists : EnableFocusMode(titles)
    \/ \E ok \in BOOLEAN : InstallKeyboardHook(ok)
    \/ \E ok \in BOOLEAN : InstallWindowHook(ok)
    \/ StartMonitoring
    \/ DisableFocusMode
    \/ Join
    \/ RemoveKeyboardHook
    \/ RemoveWindowHook
    \/ \E vk_code \in Keys : KeyDown(vk_code)
    \/ \E vk_code \in Keys : KeyUp(vk_code)
    \/ \E window_title \in WindowTitles : WindowEvent(window_title)
    \/ \E t \in 1..MaxEnables : ThreadLoopHead(t)
    \/ \E t \in 1..MaxEnables : ThreadDetect(t)
    \/ \E t \in 1..MaxEnables : ThreadLogCommit(t)
    \/ \E t \in 1..MaxEnables : ThreadScanDone(t)
    \/ RunViolationCallback
    \/ DeliverViolation
    \/ Tick

SpecFocus == InitFocus /\ [][NextFocus]_vars

\* the keys the keyboard produces when the chords are looked at alone
ChordKeys == {"VK_MENU", "VK_TAB", "VK_LWIN", "VK_RWIN"}

\* the keyboard hook alone: the engine is enabled with its hooks installed and
\* the keyboard is played on
NextKeys ==
    \/ EnableFocusMode({})
    \/ InstallKeyboardHook(TRUE)
    \/ InstallWindowHook(TRUE)
    \/ StartMonitoring
    \/ \E vk_code \in ChordKeys : KeyDown(vk_code)
    \/ \E vk_code \in ChordKeys : KeyUp(vk_code)
    \/ RunViolationCallback
    \/ DeliverViolation
    \/ Tick

SpecKeys == InitFocus /\ [][NextKeys]_vars

\* the two engines side by side, given the same allowed titles or different
\* ones, with the windows of the model coming to the foreground
NextAllow ==
    \/ \E titles \in AllowedTitleLists : EnableFocusMode(titles)
    \/ InstallKeyboardHook(TRUE)
    \/ InstallWindowHook(TRUE)
    \/ StartMonitoring
    \/ \E titles \in AllowedTitleLists : LwEnableFocusMode(titles)
    \/ LwDisableFocusMode
    \/ LwMonitorWindows
    \/ \E window_title \in WindowTitles : SetForeground(window_title)
    \/ DeliverViolation

SpecAllow == InitFocus /\ [][NextAllow]_vars

\* students are admitted, removed by the teacher, and lose their connection
NextRemoval ==
    \/ \E c \in Clients :
          loss_pc[c] = "idle" /\ Authenticate(c, server.session_code, server.password)
    \/ \E c \in Clients : AuthenticateFinish(c)
    \/ \E c \in Clients : HandleViolation(c) /\ UNCHANGED studentVars
    \/ \E c \in Clients : RemoveStudent(c)
    \/ \E c \in Clients : RemoveStudentDisconnect(c)
    \/ \E c \in Clients : RemoveStudentFinish(c)
    \/ \E c \in Clients : ConnectionLost(c)
    \/ \E c \in Clients : ConnectionLostFinish(c)

SpecRemoval == InitActive /\ [][NextRemoval]_vars

\* a capture manager on its own, in a build with or without aiortc
InitCaptureAlone ==
    /\ InitStudent
    /\ \E webrtc \in BOOLEAN : InitCapture(webrtc)
    /\ InitApp
    /\ InitOther
    /\ InitScreenShare(TRUE)
    /\ InitRemoval
    /\ session_id = 0
    /\ session_active = FALSE
    /\ teacher_focus_mode_active = FALSE
    /\ keystroke_monitoring = TRUE
    /\ charging_monitoring = TRUE
    /\ connected_students = NoStudents
    /\ malicious_activities = [c \in Clients |-> 0]
    /\ start_task = IdleStart
    /\ stop_pc = "idle"
    /\ toggle_task = IdleToggle
    /\ auth_task = [c \in Clients |-> IdleAuth]
    /\ db_sessions = 0
    /\ server = NoServer
    /\ sent = [c \in Clients |-> NoMessage]

NextCapture ==
    \/ \E q \in Qualities : SetQuality(q)
    \/ \E custom \in CustomSettings : SetCustomSettings(custom.fps, custom.scale)
    \/ \E monitor \in MonitorArgs, constructed \in BOOLEAN : StartCapture(monitor, constructed)
    \/ StopCapture
    \/ Recv
    \/ RecvWake
    \/ \E grabbed \in BOOLEAN : RecvCapture(grabbed)
    \/ Tick

SpecCapture == InitCaptureAlone /\ [][NextCapture]_vars

\* the restriction levels of restriction_change messages in the model
Levels == {"normal", "high"}

NextStudent ==
    \/ \E focus_mode \in BOOLEAN : HandleAuthSuccess(focus_mode)
    \/ \E enabled \in BOOLEAN : HandleFocusMode(enabled)
    \/ \E level \in Levels : HandleRestrictionChange(level)
    \/ \E enabled \in BOOLEAN : HandleForceFocus(enabled)
    \/ StartSharing
    \/ \E constructed \in BOOLEAN : StartSharingCapture(constructed)
    \/ HandleDisconnection
    \/ LwMonitorWindows

SpecStudent == InitCaptureAlone /\ [][NextStudent]_vars

\* a controller and its capture manager; the clock is read for the first time
\* more than an adjustment interval after its zero
InitAdaptive ==
    /\ InitStudentAt(AdjustmentTicks + 1)
    /\ InitCapture(TRUE)
    /\ InitApp
    /\ InitOther
    /\ InitScreenShare(TRUE)
    /\ InitRemoval
    /\ session_id = 0
    /\ session_active = FALSE
    /\ teacher_focus_mode_active = FALSE
    /\ keystroke_monitoring = TRUE
    /\ charging_monitoring = TRUE
    /\ connected_students = NoStudents
    /\ malicious_activities = [c \in Clients |-> 0]
    /\ start_task = IdleStart
    /\ stop_pc = "idle"
    /\ toggle_task = IdleToggle
    /\ auth_task = [c \in Clients |-> IdleAuth]
    /\ db_sessions = 0
    /\ server = NoServer
    /\ sent = [c \in Clients |-> NoMessage]

NextAdaptive ==
    \/ \E sample \in Samples : UpdateNetworkMetrics(sample.latency, sample.packet_loss)
    \/ \E q \in ForcedQualities : ForceQuality(q)
    \/ TickInterval

SpecAdaptive == InitAdaptive /\ [][NextAdaptive]_vars

NextConfigured ==
    \/ \E sample \in Samples : UpdateNetworkMetrics(sample.latency, sample.packet_loss)
    \/ \E q \in ForcedQualities : ForceQuality(q)
    \/ \E q \in Qualities : DirectSetQuality(q)
    \/ \E custom \in CustomSettings : DirectSetCustomSettings(custom.fps, custom.scale)
    \/ \E constructed \in BOOLEAN : StartCapture(0, constructed)
    \/ StopCapture
    \/ Recv
    \/ \E grabbed \in BOOLEAN : RecvCapture(grabbed)

SpecConfigured == InitAdaptive /\ [][NextConfigured]_vars

\* a session started with ("ABCD1234", "p@ss"), in a build with or without
\* aiortc
InitSharing ==
    /\ InitStudent
    /\ \E webrtc \in BOOLEAN : InitCapture(webrtc)
    /\ InitApp
    /\ InitOther
    /\ InitScreenShare(TRUE)
    /\ InitRemoval
    /\ session_id = 1
    /\ session_active = TRUE
    /\ teacher_focus_mode_active = FALSE
    /\ keystroke_monitoring = TRUE
    /\ charging_monitoring = TRUE
    /\ connected_students = NoStudents
    /\ malicious_activities = [c \in Clients |-> 0]
    /\ start_task = IdleStart
    /\ stop_pc = "idle"
    /\ toggle_task = IdleToggle
    /\ auth_task = [c \in Clients |-> IdleAuth]
    /\ db_sessions = 1
    /\ server = StartTeacherServer("ABCD1234", "p@ss")
    /\ sent = [c \in Clients |-> NoMessage]

NextSharing ==
    \/ \E constructed \in BOOLEAN : StartScreenSharingAsync(constructed)
    \/ StopScreenSharingAsync
    \/ StopScreenSharingFinish
    \/ StartScreenSharing
    \/ \E constructed \in BOOLEAN : StartScreenSharingCapture(constructed)
    \/ StopScreenSharing
    \/ \E screenshot \in BOOLEAN : CaptureAndSendFrame(screenshot)
    \/ HandleScreenSharing
    \/ \E loaded \in BOOLEAN : HandleScreenFrame(loaded)

SpecSharing == InitSharing /\ [][NextSharing]_vars

\* every kind of report of the student behind "c1", before and after it is
\* admitted, next to a second client that is admitted at some time and sends
\* the violation and heartbeat messages of every student application
OtherClient == "c2"

NextTelemetry ==
    \/ \E c \in Clients : Authenticate(c, server.session_code, server.password)
    \/ \E c \in Clients : AuthenticateFinish(c)
    \/ \E c \in Clients : HandleViolation(c) /\ UNCHANGED studentVars
    \/ \E c \in Clients, focus_active \in BOOLEAN, stats \in SystemStats :
          HandleHeartbeat(c, focus_active, stats) /\ UNCHANGED studentVars
    \/ \E count \in KeystrokeCounts :
          HandleKeystrokeData(StudentClient, count) /\ UNCHANGED studentVars
    \/ \E level \in BatteryLevels, charging \in BOOLEAN :
          HandleBatteryStatus(StudentClient, level, charging) /\ UNCHANGED studentVars
    \/ \E cpu \in CpuUsages :
          HandleSystemInfo(StudentClient, cpu) /\ UNCHANGED studentVars
    \/ HandleMaliciousActivity(StudentClient) /\ UNCHANGED studentVars

SpecTelemetry == InitActive /\ [][NextTelemetry]_vars

\* the teacher's screen sharing in a session that is stopped
NextStopSharing ==
    \/ NextSharing
    \/ StopSession
    \/ StopEndSession
    \/ StopFinish

SpecStopSharing == InitSharing /\ [][NextStopSharing]_vars

\* a StudentScreenShare with or without an approval callback, its settings
\* and the requests of the teacher
InitShare ==
    /\ InitStudent
    /\ \E webrtc \in BOOLEAN : InitCapture(webrtc)
    /\ InitApp
    /\ InitOther
    /\ \E callback \in BOOLEAN : InitScreenShare(callback)
    /\ InitRemoval
    /\ session_id = 0
    /\ session_active = FALSE
    /\ teacher_focus_mode_active = FALSE
    /\ keystroke_monitoring = TRUE
    /\ charging_monitoring = TRUE
    /\ connected_students = NoStudents
    /\ malicious_activities = [c \in Clients |-> 0]
    /\ start_task = IdleStart
    /\ stop_pc = "idle"
    /\ toggle_task = IdleToggle
    /\ auth_task = [c \in Clients |-> IdleAuth]
    /\ db_sessions = 0
    /\ server = NoServer
    /\ sent = [c \in Clients |-> NoMessage]

NextShare ==
    \/ \E auto \in BOOLEAN, confirmation \in BOOLEAN : SetAutoApprove(auto, confirmation)
    \/ \E approved \in BOOLEAN : HandleShareRequest(approved)
    \/ \E constructed \in BOOLEAN : ShareRequestCapture(constructed)
    \/ StopSharing

SpecShare == InitShare /\ [][NextShare]_vars

\* ------------------------------------------------------------- properties
\* a step that ends the named coroutine
AuthReplied(c) == auth_task[c].pc = "add_student" /\ auth_task'[c].pc = "idle"
ToggleDone == toggle_task.pc = "broadcast_message" /\ toggle_task'.pc = "idle"
StopDone == stop_pc = "stop_server" /\ stop_pc' = "idle"

\* C1: the authenticate handler goes on to register a client and answer
\* auth_success only when the session_code and password of the message are
\* the pair the session was started with.
C1_OnlyTheSessionPairIsAdmitted ==
    [][\A c \in Clients :
         (auth_task[c].pc = "idle" /\ auth_task'[c].pc = "add_student")
            => /\ auth_task'[c].session_code = server.session_code
               /\ auth_task'[c].password = server.password]_vars

\* C2: when the focus-mode toggle completes, focus_mode_active is the value
\* asked for and every entry of connected_students has its focus flag equal
\* to it.
C2_ToggleSetsEveryFocusFlag ==
    [][ToggleDone =>
         /\ teacher_focus_mode_active' = toggle_task.enabled
         /\ \A c \in DOMAIN connected_students' :
               connected_students'[c].focus_active = toggle_task.enabled]_vars

C4_StartWhileActiveChangesNothing ==
    [][(session_active /\ start_task' # start_task)
          => (session_id' = session_id /\ server' = server
              /\ db_sessions' = db_sessions)]_vars

\* C5: the auth_success reply carries focus_mode, keystroke_monitoring and
\* battery_monitoring equal to the teacher's focus_mode_active,
\* keystroke_monitoring and charging_monitoring at the step that sends it.
C5_ReplyCarriesCurrentConfiguration ==
    [][\A c \in Clients :
         AuthReplied(c) =>
            /\ sent'[c].type = "auth_success"
            /\ sent'[c].focus_mode = teacher_focus_mode_active'
            /\ sent'[c].keystroke_monitoring = keystroke_monitoring'
            /\ sent'[c].battery_monitoring = charging_monitoring']_vars

\* C5, reached: a client holds a reply with focus mode on and keystroke
\* monitoring off, sent after both had been changed, while another focus-mode
\* toggle is on its way.
C5_Witness ==
    /\ sent["c1"].type = "auth_success"
    /\ sent["c1"].focus_mode
    /\ ~sent["c1"].keystroke_monitoring
    /\ sent["c1"].battery_monitoring
    /\ "c1" \in DOMAIN connected_students
    /\ toggle_task.pc = "broadcast_message"

\* C6: the violations of a client that stays in connected_students never
\* decrease.
C6_ViolationsNeverDecrease ==
    [][\A c \in Clients :
         (c \in DOMAIN connected_students /\ c \in DOMAIN connected_students')
            => connected_students'[c].violations >= connected_students[c].violations]_vars

\* C7: once nothing is on its way (no violation being committed, no callback
\* pending, no violation message in flight), the teacher's count for the
\* student equals the violations the student's engine has emitted.
C7_TeacherCountEqualsEmitted ==
    (/\ callback_tasks = 0
     /\ violation_frames = 0
     /\ \A t \in 1..MaxEnables : threads[t].pc # "log_commit")
        => connected_students["c1"].violations = violation_count

\* C8: two emitted violations are at least one second apart: a step that
\* increments violation_count moves last_violation_time on by a second or more.
C8_EmissionsAtLeastOneSecondApart ==
    [][violation_count' > violation_count
          => last_violation_time' - last_violation_time >= SecondTicks]_vars

\* C9: after enable_focus_mode and a completed disable_focus_mode the engine
\* is inactive and pressed_keys is empty.
C9_DisableLeavesNoPressedKeys ==
    (enable_calls > 0 /\ main_pc = "loop" /\ ~focus_mode_active)
        => pressed_keys = {}

\* C10: the engine does not report active while enable_focus_mode is still
\* installing the hooks and the monitoring: Armed comes after Arming.
C10_NotActiveWhileArming ==
    focus_mode_active
        => main_pc \notin {"install_keyboard_hook", "install_window_hook",
                           "start_monitoring"}

\* C11: an enable_focus_mode in which the installation of the keyboard hook or
\* of the window hook failed ends with the engine inactive and with no hook and
\* no monitoring thread of that attempt left.
C11_FailedInstallIsUndone ==
    [][(/\ main_pc = "start_monitoring"
        /\ main_pc' = "loop"
        /\ (keyboard_hook # enable_calls \/ window_hook # enable_calls))
          => /\ ~focus_mode_active'
             /\ monitoring_thread' = 0
             /\ enable_calls \notin (os_keyboard_hooks' \cup os_window_hooks')]_vars

\* C12: a key-down of Tab while the OS key is held completes a restricted
\* chord and, outside the cooldown, reports exactly one violation.
C12_OsKeyPlusTabIsReported ==
    [][(KeyDown("VK_TAB") /\ "VK_LWIN" \in pressed_keys /\ ~InCooldown(now))
          => violation_count' = violation_count + 1]_vars

\* C13: a key event is swallowed only with a violation reported for it: a
\* key-down step that returns "blocked" increments violation_count.
C13_SwallowedOnlyWithViolation ==
    [][\A vk_code \in ChordKeys :
         (KeyDown(vk_code) /\ hook_return' = "blocked")
            => violation_count' = violation_count + 1]_vars

\* C13, amended: a key-down is swallowed exactly when the pressed keys then
\* hold every key of a restricted combination, all other key-downs and every
\* key-up go to the next hook, and the swallowed key-down is reported as one
\* violation unless the cooldown suppresses it, in which case nothing is
\* reported.
C13_SwallowedIffChordReportedOutsideCooldown ==
    [][\A vk_code \in ChordKeys :
         /\ KeyDown(vk_code) =>
               /\ hook_return' = "blocked" <=> CheckRestrictedKeys(pressed_keys \cup {vk_code})
               /\ hook_return' \in {"blocked", "next"}
               /\ (hook_return' = "blocked" /\ ~InCooldown(now))
                     => violation_count' = violation_count + 1
               /\ (hook_return' = "next" \/ InCooldown(now))
                     => violation_count' = violation_count
         /\ KeyUp(vk_code) =>
               (hook_return' = "next" /\ violation_count' = violation_count)]_vars

\* C13, reached: Alt+Tab has been swallowed within the cooldown of an earlier
\* violation, so that one violation stands against a blocked chord.
C13_Witness ==
    /\ hook_return = "blocked"
    /\ pressed_keys = {"VK_MENU", "VK_TAB"}
    /\ violation_count = 1
    /\ InCooldown(now)
    /\ now > last_violation_time

\* C15: every step that increments violation_count schedules the violation
\* callback once on the event loop.
C15_EveryEmissionSchedulesTheCallback ==
    [][violation_count' > violation_count
          => callback_tasks' = callback_tasks + 1]_vars

\* C14: with both engines active on the same allowed titles, the two
\* _is_window_allowed give the same answer for every window title.
C14_EnginesAgreeOnAllowedWindows ==
    (focus_mode_active /\ lw_focus_mode_active /\ allowed_windows = lw_allowed_windows)
        => \A window_title \in WindowTitles :
              IsWindowAllowed(window_title) <=> LwIsWindowAllowed(window_title)

\* C16: for each client the database remove_student is invoked at most once
\* and the deletion of the registry entry raises no error.
C16_DisconnectionHandledOnce ==
    \A c \in Clients : db_removes[c] <= 1 /\ ~key_error[c]

\* C18: start_capture called while a capture is active returns the source
\* the first call returned, constructs no second track and leaves
\* is_capturing and current_monitor as they are, whatever monitor it names.
C18_StartCaptureIsIdempotent ==
    [][\A monitor \in MonitorArgs, constructed \in BOOLEAN :
          (is_capturing /\ StartCapture(monitor, constructed))
              => (/\ returned' = capture_track
                  /\ returned' = returned
                  /\ UNCHANGED <<is_capturing, capture_track, current_monitor,
                                 tracks_created>>)]_vars

\* a capture of monitor 0 is active and the last call was start_capture for
\* monitor 1: a second start without a stop in between
C18_Witness ==
    /\ is_capturing
    /\ current_monitor = 0
    /\ capture_call = Call("start_capture", 1)
    /\ returned = capture_track
    /\ tracks_created = 1

\* C19: stop_capture on a pipeline that is not capturing changes none of
\* is_capturing, capture_track, current_monitor, fps, scale_factor, quality.
C19_StopWhenIdleChangesNothing ==
    [][(~is_capturing /\ StopCapture)
          => UNCHANGED <<is_capturing, capture_track, current_monitor, fps,
                         scale_factor, quality>>]_vars

\* stop_capture was the last call on a pipeline that never captured and whose
\* settings are not the initial ones
C19_Witness ==
    /\ capture_call = Call("stop_capture", 0)
    /\ webrtc_available
    /\ tracks_created = 0
    /\ quality = "low"
    /\ ~is_capturing
    /\ capture_track = None

\* C20: every pull of the track, whether the grab succeeds or raises, returns
\* a frame whose pts is one more than the pts of the frame before it, and
\* advances the frame counter by one.
C20_FrameIdentifiersIncreaseByOne ==
    [][\A grabbed \in BOOLEAN :
          RecvCapture(grabbed)
              => (/\ frame_pts' = frame_pts + 1
                  /\ frame_count' = frame_count + 1
                  /\ frame_pts' >= 0)]_vars

\* three pulls are done, and the last one failed: it left last_frame_time
\* behind the time it read
C20_Witness ==
    /\ recv_pc = "idle"
    /\ frame_count = MaxFrames
    /\ frame_pts = MaxFrames - 1
    /\ last_frame_time < recv_current_time

\* C17: when handle_disconnection has run, the student's engine is inactive,
\* screen sharing is stopped and the heartbeat timer is stopped, whatever
\* focus_mode, restriction_change and force_focus messages came before.
C17_DisconnectionCleansUp ==
    [][HandleDisconnection
          => (/\ ~lw_focus_mode_active'
              /\ ~is_sharing'
              /\ ~is_capturing'
              /\ ~heartbeat_timer')]_vars

\* C21: two consecutive frames of a track are returned at least one frame
\* duration apart, whatever the times of the pulls.
C21_FramesOneFrameDurationApart ==
    [][\A grabbed \in BOOLEAN :
          (RecvCapture(grabbed) /\ frame_pts >= 0)
              => now - frame_returned_at >= FrameDuration]_vars

\* the classification of a sample as the claim words it
ClaimedQuality(sample_latency, packet_loss) ==
    IF sample_latency < GoodLatency /\ packet_loss < GoodLoss THEN "good"
    ELSE IF sample_latency < FairLatency /\ packet_loss < FairLoss THEN "fair"
    ELSE "poor"

\* C22: network_quality is the classification of the most recent sample: good
\* iff latency < 50 and loss < 0.01, otherwise fair iff latency < 150 and
\* loss < 0.05, otherwise poor, also when the sample made no adjustment.
C22_QualityClassifiesLastSample ==
    network_quality = ClaimedQuality(latency, frame_loss_rate)

\* a sample on the limit of good was classified fair and came too early for
\* an adjustment
C22_Witness ==
    /\ latency = GoodLatency
    /\ frame_loss_rate = 0
    /\ network_quality = "fair"
    /\ last_adjustment > 0
    /\ last_adjustment < now

\* an adjustment is made by the sample that arrives now
Adjusting == now - last_adjustment > AdjustmentTicks

\* C23: the tier index stays within the list, and an automatic adjustment
\* moves it one step down on poor (not below low), one step up on good (not
\* above ultra) and not at all on fair.
C23_OneTierPerAdjustment ==
    [][\A sample \in Samples :
          UpdateNetworkMetrics(sample.latency, sample.packet_loss)
              => (/\ current_level_index' \in 0..(Len(quality_levels) - 1)
                  /\ Adjusting /\ network_quality' = "poor"
                        => current_level_index' = Max(current_level_index - 1, 0)
                  /\ Adjusting /\ network_quality' = "good"
                        => current_level_index' =
                              Min(current_level_index + 1, Len(quality_levels) - 1)
                  /\ Adjusting /\ network_quality' = "fair"
                        => current_level_index' = current_level_index)]_vars

\* the second adjustment in a row met a poor network at the lowest tier
C23_Witness ==
    /\ current_level_index = 0
    /\ network_quality = "poor"
    /\ last_adjustment = now
    /\ last_adjustment > 2 * AdjustmentTicks
    /\ quality = "low"

\* C24: a sample that arrives an adjustment interval or less after the last
\* adjustment changes neither the tier nor the capture settings, so two tier
\* changes made by update_network_metrics are more than the interval apart.
C24_NoTierChangeWithinInterval ==
    [][\A sample \in Samples :
          (/\ UpdateNetworkMetrics(sample.latency, sample.packet_loss)
           /\ now - last_adjustment <= AdjustmentTicks)
              => UNCHANGED <<current_level_index, last_adjustment, fps, scale_factor,
                             quality>>]_vars

\* the first sample raised the tier to high; a poor sample arrived exactly one
\* interval later and the tier is still high
C24_Witness ==
    /\ current_level_index = 2
    /\ network_quality = "poor"
    /\ last_adjustment = AdjustmentTicks + 1
    /\ now = last_adjustment + AdjustmentTicks
    /\ quality = "high"

\* C25: an adjustment made by a good sample (latency 20, loss 0) raises the
\* tier index unless it is at ultra, where it stays; one made by a poor
\* sample (latency 300, loss 0.2) lowers it unless it is at low, where it stays.
C25_GoodRaisesPoorLowersToTheEnd ==
    [][/\ (UpdateNetworkMetrics(20, 0) /\ Adjusting)
            => \/ current_level_index' > current_level_index
               \/ current_level_index = Len(quality_levels) - 1
                    /\ current_level_index' = current_level_index
       /\ (UpdateNetworkMetrics(300, 200) /\ Adjusting)
            => \/ current_level_index' < current_level_index
               \/ current_level_index = 0 /\ current_level_index' = 0]_vars

\* good samples over three intervals: the third adjustment finds the tier at
\* ultra
C25_Witness ==
    /\ current_level_index = Len(quality_levels) - 1
    /\ latency = 20
    /\ frame_loss_rate = 0
    /\ last_adjustment = now
    /\ last_adjustment >= MaxIntervals * (AdjustmentTicks + 1)
    /\ quality = "ultra"

\* C26: a pull of the running track uses the frames-per-second and the scale
\* factor of the capture configuration as it is at the pull.
C26_PullsUseTheCurrentConfiguration ==
    [][Recv => (track_fps = fps /\ track_scale_factor = scale_factor)]_vars

\* C27: the quality of the capture configuration is one of the levels and is
\* the level the controller's index points at.
C27_QualityIsTheControllersLevel ==
    /\ \E index \in 0..(Len(quality_levels) - 1) : LevelAt(index) = quality
    /\ quality = LevelAt(current_level_index)

\* C28: force_quality with a level of the list sets the controller's level
\* and the preset's fps and scale at once, whatever the time since the last
\* adjustment, and only update_network_metrics or another force_quality
\* changes the level afterwards.
C28_ForcedLevelHoldsUntilNextSample ==
    [][/\ \A q \in ForcedQualities \cap DOMAIN quality_presets :
             ForceQuality(q)
                => (/\ LevelAt(current_level_index') = q
                    /\ quality' = q
                    /\ fps' = quality_presets[q].fps
                    /\ scale_factor' = quality_presets[q].scale)
       /\ current_level_index' # current_level_index
             => \/ \E sample \in Samples :
                      UpdateNetworkMetrics(sample.latency, sample.packet_loss)
                \/ \E q \in ForcedQualities : ForceQuality(q)]_vars

\* low was forced at the very time of an adjustment that had raised the tier
C28_Witness ==
    /\ last_adjustment = now
    /\ network_quality = "good"
    /\ current_level_index = 0
    /\ quality = "low"
    /\ fps = quality_presets["low"].fps

\* C29: a student that processes the screen_sharing message of the teacher's
\* last start or stop ends receiving after a start, and not receiving with
\* the frame cleared after a stop.
C29_SidesAgreeOnScreenSharing ==
    [][(HandleScreenSharing /\ sharing_pc = "idle")
          => (/\ video_connected' = screen_sharing_active
              /\ ~screen_sharing_active => ~current_frame')]_vars

\* C30: with a session started, _start_screen_sharing_async called while not
\* sharing leaves the teacher sharing: screen_sharing_active is set, the
\* capture manager is capturing and screen_sharing "start" was broadcast.
C30_AsyncStartSharesTheScreen ==
    [][\A constructed \in BOOLEAN :
          (~screen_sharing_active /\ StartScreenSharingAsync(constructed))
              => (/\ screen_sharing_active'
                  /\ is_capturing'
                  /\ \A c \in Clients : sent'[c] = ScreenSharingAction("start"))]_vars

\* C31: no violation is counted or delivered by a focus engine that is not
\* active: a step that increments violation_count or schedules the violation
\* callback is taken with focus_mode_active set.
C31_NoViolationWhileInactive ==
    [][(violation_count' > violation_count \/ callback_tasks' > callback_tasks)
          => focus_mode_active]_vars

\* C32: once disable_focus_mode has returned, no keyboard hook, window hook
\* or monitoring thread of any earlier enable_focus_mode is still installed
\* or running.
C32_DisableReleasesEveryHookAndThread ==
    (main_pc = "loop" /\ ~focus_mode_active)
        => (/\ os_keyboard_hooks = {}
            /\ os_window_hooks = {}
            /\ \A t \in 1..MaxEnables : threads[t].pc \in {"unborn", "exited"})

\* C33: while the session is idle after a completed stop (not active, server
\* closed, no start or stop under way), connected_students is empty, also
\* when an authenticate handler was parked at its database call while the
\* stop cleared the registry.
C33_RegistryEmptyWhileIdle ==
    (/\ ~session_active
     /\ ~server.running
     /\ stop_pc = "idle"
     /\ start_task.pc = "idle")
        => connected_students = NoStudents

\* C34: a LightweightFocusManager has at most one _monitor_windows task alive
\* at any time, for every sequence of enable_focus_mode and
\* disable_focus_mode calls.
C34_AtMostOnePollingLoop == lw_tasks <= 1

\* C35: after every message handler of the student has completed, the
\* application's focus_mode_active flag is true exactly when its focus engine
\* is active.
C35_AppFlagIsTheEnginesState ==
    share_pc = "idle" => (student_focus_mode_active <=> lw_focus_mode_active)

\* a telemetry or report message of client c is handled
Telemetry(c) ==
    \/ HandleViolation(c)
    \/ \E focus_active \in BOOLEAN, stats \in SystemStats :
          HandleHeartbeat(c, focus_active, stats)
    \/ \E count \in KeystrokeCounts : HandleKeystrokeData(c, count)
    \/ \E level \in BatteryLevels, charging \in BOOLEAN :
          HandleBatteryStatus(c, level, charging)
    \/ \E cpu \in CpuUsages : HandleSystemInfo(c, cpu)
    \/ HandleMaliciousActivity(c)

\* C36: a telemetry or report message of client c changes only c's own entry
\* of connected_students; a message whose sender is not in the registry
\* changes no entry and adds none.
C36_TelemetryTouchesOnlyTheSender ==
    [][\A c \in Clients :
          Telemetry(c)
             => (/\ DOMAIN connected_students' = DOMAIN connected_students
                 /\ \A d \in DOMAIN connected_students \ {c} :
                       connected_students'[d] = connected_students[d])]_vars

\* C36, reached: with both clients registered, c1's reports have changed
\* c1's entry and c2's is as it was stored.
C36_Witness ==
    /\ DOMAIN connected_students = Clients
    /\ connected_students[StudentClient].keystroke_count > KeystrokeAlert
    /\ connected_students[StudentClient].violations > 0
    /\ connected_students[OtherClient] = NewStudent

\* C37: immediately after a client is admitted, the focus flag of its entry
\* of the registry equals the session's current focus mode, the focus_mode
\* value it was sent in auth_success.
C37_AdmittedWithTheSessionsFocusMode ==
    [][\A c \in Clients :
          AuthReplied(c)
             => (/\ connected_students'[c].focus_active = teacher_focus_mode_active
                 /\ connected_students'[c].focus_active = sent'[c].focus_mode)]_vars

\* C38: stopping the session releases the periodic frame timer: when
\* _stop_session_async completes, basic_sharing_timer is stopped.
C38_StopSessionStopsTheFrameTimer ==
    [][StopDone => ~basic_sharing_timer']_vars

\* C39: StudentScreenShare never starts sharing without consent: is_sharing
\* becomes true only for a request made with auto_approve set and
\* require_confirmation cleared, or one for which the approval callback
\* returned true; with no approval callback and confirmation required a
\* request is denied and the capture pipeline is not started; and is_sharing
\* is true only while the ScreenCapture is capturing.
C39_NoSharingWithoutConsent ==
    [][/\ (~is_sharing /\ is_sharing')
            => \/ auto_approve /\ ~require_confirmation
               \/ share_asked /\ share_approved
       /\ \A approved \in BOOLEAN :
             (HandleShareRequest(approved) /\ ~approval_callback /\ require_confirmation)
                => (/\ share_reply' = "not configured"
                    /\ share_pc' = "idle"
                    /\ UNCHANGED <<is_sharing, is_capturing, capture_track>>)
       /\ is_sharing' => is_capturing']_vars

\* C39, reached: the student is sharing, and capturing, on a request that the
\* approval callback approved with confirmation required.
C39_Witness ==
    /\ is_sharing
    /\ is_capturing
    /\ require_confirmation
    /\ share_asked
    /\ share_approved
    /\ share_reply = "started"

=============================================================================
